---- MODULE Spec2Model ----
(***************************************************************************)
(* KlikAanKlikUit ICS-2000 integration: the hub (device registry, cloud    *)
(* discovery and state sync, local commands with optimistic state) and the *)
(* state manager (persisted states with an age-based confidence).          *)
(*                                                                         *)
(* Time is in seconds.  A Python dict key that is absent and a value that  *)
(* is None are both written None (the empty tuple); a present value x is   *)
(* Some(x).  Text that the code inspects character by character (device    *)
(* names) is a sequence of one-character strings.                          *)
(***************************************************************************)
EXTENDS Integers, Sequences, FiniteSets, TLC

VARIABLES
    now,            \* the wall clock read by datetime.now()
    ip_address,     \* hub.ip_address: TRUE when a local IP is known
    aes_key,        \* hub._aes_key: TRUE when a session key is held
    connected,      \* hub._connected
    devices,        \* hub.devices: id -> device record
    pending,        \* _delayed_state_refresh tasks created and not yet run
    sending,        \* the _send_local_command suspended in its retry sleep
    sm_states,      \* StateManager._states
    sm_loaded,      \* StateManager._loaded
    store,          \* the persisted "states" map of the Store
    ev,             \* the last operation and what it returned
    ops,            \* hub operations started so far
    conf_in,        \* input of the stand-alone _update_confidence run
    conf_out,       \* its output
    pure_in,        \* input of a stand-alone run of another pure function
    pure_out,       \* its output
    awaiting        \* the coroutines suspended in a cloud call or a store load

hubvars == <<ip_address, aes_key, connected, devices, pending, sending>>
smvars == <<sm_states, sm_loaded, store>>
confvars == <<conf_in, conf_out, pure_in, pure_out, awaiting>>
vars == <<now, hubvars, smvars, ev, ops, confvars>>

----------------------------------------------------------------------------
\* Bounds of the model
MaxTime == 3600
MaxPending == 1
MaxOps == 4
MaxUpdates == 10
MaxAwaiting == 2

\* Program constants
CONFIDENCE_HIGH == 100
CONFIDENCE_MEDIUM == 80
CONFIDENCE_LOW == 60
CONFIDENCE_UNCERTAIN == 40
DEFAULT_TRIES == 3
ONE_MINUTE == 60
FIVE_MINUTES == 300
ONE_HOUR == 3600
SAVE_EVERY == 10

None == <<>>
Some(x) == <<x>>

\* datetime.now().isoformat() and datetime.fromisoformat(): a timestamp
\* string is "iso" (parses back to the instant t), "bad" (fromisoformat
\* raises) or "absent" (no last_update key).
isoformat(t) == [kind |-> "iso", t |-> t]
NoStamp == [kind |-> "absent", t |-> 0]
BadStamp == [kind |-> "bad", t |-> 0]

\* The instants the model's clock visits: each confidence threshold and one
\* second after the last.
TimePoints == {0, ONE_MINUTE, FIVE_MINUTES, ONE_HOUR, ONE_HOUR + 1}

----------------------------------------------------------------------------
\* Text helpers

Contains(hay, needle) ==
    \E i \in 1..(Len(hay) - Len(needle) + 1) :
        SubSeq(hay, i, i + Len(needle) - 1) = needle

UpperChars == <<"A","B","C","D","E","F","G","H","I","J","K","L","M",
                "N","O","P","Q","R","S","T","U","V","W","X","Y","Z">>
LowerChars == <<"a","b","c","d","e","f","g","h","i","j","k","l","m",
                "n","o","p","q","r","s","t","u","v","w","x","y","z">>

LowerChar(c) ==
    IF \E i \in DOMAIN UpperChars : UpperChars[i] = c
    THEN LowerChars[CHOOSE i \in DOMAIN UpperChars : UpperChars[i] = c]
    ELSE c

\* str.lower()
lower(name) == [i \in 1..Len(name) |-> LowerChar(name[i])]

DigitChars == <<"0","1","2","3","4","5","6","7","8","9">>

RECURSIVE Digits(_)
Digits(n) ==
    IF n < 10 THEN <<DigitChars[n + 1]>>
    ELSE Digits(n \div 10) \o <<DigitChars[(n % 10) + 1]>>

\* f"Device {module_id}"
DefaultName(id) == <<"D","e","v","i","c","e"," ">> \o Digits(id)

AnyWord(name_lower, words) == \E w \in words : Contains(name_lower, w)

LightWords == { <<"l","i","g","h","t">>, <<"b","u","l","b">>, <<"l","a","m","p">>,
                <<"s","p","o","t">>, <<"l","e","d">>,
                <<"a","m","b","i","e","n","t">> }
DimmerWords == { <<"d","i","m","m","e","r">>, <<"d","i","m">> }
SwitchWords == { <<"s","w","i","t","c","h">>, <<"p","l","u","g">>,
                 <<"o","u","t","l","e","t">> }
CoverWords == { <<"b","l","i","n","d">>, <<"c","u","r","t","a","i","n">>,
                <<"s","h","u","t","t","e","r">>, <<"s","h","a","d","e">> }
SensorWords == { <<"s","e","n","s","o","r">>, <<"m","o","t","i","o","n">>,
                 <<"d","o","o","r">>, <<"w","i","n","d","o","w">> }
FanWords == { <<"f","a","n">>, <<"s","p","e","a","k","e","r">> }
AlwaysDimWords == { <<"a","m","b","i","e","n","t">>, <<"b","e","d","r","o","o","m">>,
                    <<"l","i","v","i","n","g">> }
NeverDimWords == { <<"s","w","i","t","c","h">>, <<"f","a","n">>,
                   <<"s","p","e","a","k","e","r">>,
                   <<"f","l","o","o","d","l","i","g","h","t">>,
                   <<"s","e","n","s","o","r">> }

type_map(device_value) ==
    CASE device_value = 1 -> "switch"
      [] device_value = 2 -> "dimmer"
      [] device_value = 3 -> "light"
      [] device_value = 4 -> "cover"
      [] device_value = 5 -> "sensor"
      [] OTHER -> "switch"

\* guess_device_type that consults the device value before the name
guess_device_type_code_first(name, device_value) ==
    LET name_lower == lower(name) IN
    IF device_value \in 2..5 THEN type_map(device_value)
    ELSE IF AnyWord(name_lower, LightWords) THEN "light"
    ELSE IF AnyWord(name_lower, DimmerWords) THEN "dimmer"
    ELSE IF AnyWord(name_lower, SwitchWords) THEN "switch"
    ELSE IF AnyWord(name_lower, CoverWords) THEN "cover"
    ELSE IF AnyWord(name_lower, SensorWords) THEN "sensor"
    ELSE "switch"

guess_device_type(name, device_value) ==
    LET name_lower == lower(name) IN
    IF AnyWord(name_lower, LightWords) THEN "light"
    ELSE IF AnyWord(name_lower, DimmerWords) THEN "dimmer"
    ELSE IF AnyWord(name_lower, SwitchWords) THEN "switch"
    ELSE IF AnyWord(name_lower, CoverWords) THEN "cover"
    ELSE IF AnyWord(name_lower, SensorWords) THEN "sensor"
    ELSE IF AnyWord(name_lower, FanWords) THEN "switch"
    ELSE type_map(device_value)

guess_if_dimmable(name, device_type) ==
    LET name_lower == lower(name) IN
    IF device_type = "dimmer" THEN TRUE
    ELSE IF AnyWord(name_lower, AlwaysDimWords) THEN TRUE
    ELSE IF AnyWord(name_lower, NeverDimWords) THEN FALSE
    ELSE device_type = "light"

----------------------------------------------------------------------------
\* The cloud's sync responses

\* A JSON value found under "name": text, a number, or nothing.
NoName == [kind |-> "none", chars |-> <<>>, n |-> 0]
Text(chars) == [kind |-> "str", chars |-> chars, n |-> 0]
Number(n) == [kind |-> "int", chars |-> <<>>, n |-> n]

\* Python truthiness of such a value
Truthy(v) ==
    \/ v.kind = "str" /\ v.chars # <<>>
    \/ v.kind = "int" /\ v.n # 0

\* The document a blob decrypts to: whether it has a "module" key and
\* whether that is an object, and the module's name, device and functions.
Doc(module, name, device, functions) ==
    [module |-> module, name |-> name, device |-> device, functions |-> functions]
List(items) == [kind |-> "list", items |-> items]
NotAList == [kind |-> "other", items |-> <<>>]

\* A "data" or "status" field: absent, a blob that does not decrypt to
\* JSON, or a blob that decrypts to a document.
NoBlob == [kind |-> "absent", doc |-> Doc("missing", NoName, 1, List(<<>>))]
BadBlob == [kind |-> "undecodable", doc |-> Doc("missing", NoName, 1, List(<<>>))]
Blob(doc) == [kind |-> "json", doc |-> doc]

DataBlob(name, device) == Blob(Doc("dict", name, device, List(<<>>)))
StatusBlob(items) == Blob(Doc("dict", NoName, 1, List(items)))

\* One element of the sync response.  idok is FALSE when int(id) raises.
Module(id, data, status, version) ==
    [idok |-> TRUE, id |-> id, data |-> data, status |-> status,
     version_status |-> version, version_data |-> version]
BadIdModule ==
    [idok |-> FALSE, id |-> 0, data |-> NoBlob, status |-> NoBlob,
     version_status |-> 1, version_data |-> 1]

Lamp == <<"L","a","m","p">>
Plug == <<"P","l","u","g">>

Response(status, body, modules) ==
    [status |-> status, body |-> body, modules |-> modules]

Responses == <<
    Response(500, "list", << Module(1, DataBlob(Text(Lamp), 3), StatusBlob(<<1>>), 1) >>),
    Response(200, "nonjson", <<>>),
    Response(200, "dict", <<>>),
    Response(200, "list", <<>>),
    Response(200, "list",
        << Module(1, DataBlob(Text(Lamp), 3), StatusBlob(<<1>>), 1),
           Module(2, DataBlob(Text(Plug), 1), BadBlob, 1),
           Module(3, BadBlob, StatusBlob(<<0>>), 2) >>),
    Response(200, "list",
        << Module(1, DataBlob(Text(Lamp), 3), StatusBlob(<<0>>), 2),
           Module(2, DataBlob(Text(Plug), 1), StatusBlob(<<1, 0>>), 2) >>),
    Response(200, "list",
        << Module(1, DataBlob(Number(7), 3), StatusBlob(<<1>>), 3),
           Module(2, DataBlob(Text(Plug), 1), StatusBlob(<<0>>), 3) >>),
    Response(200, "list",
        << Module(0, DataBlob(Text(Lamp), 3), StatusBlob(<<1>>), 1),
           Module(4, DataBlob(Text(Lamp), 3), StatusBlob(<<1>>), 1),
           BadIdModule,
           Module(2, DataBlob(Text(Plug), 1), StatusBlob(<<1>>), 4) >>)
    >>

RespIds == DOMAIN Responses

\* hub.entity_blacklist, set from the entry's options
entity_blacklist == {4}

----------------------------------------------------------------------------
\* Hub: discovery and state sync

Put(f, k, v) == [x \in (DOMAIN f) \cup {k} |-> IF x = k THEN v ELSE f[x]]

\* _decrypt_kaku_data: None unless the blob decrypts to a JSON document
decrypt_kaku_data(blob) ==
    IF blob.kind = "json" THEN Some(blob.doc) ELSE None

\* "if decrypted and 'module' in decrypted"
HasModule(blob) ==
    /\ blob.kind # "absent"
    /\ decrypt_kaku_data(blob) # None
    /\ decrypt_kaku_data(blob)[1].module # "missing"

ModuleOf(blob) == decrypt_kaku_data(blob)[1]

\* module.get('name') of the data document, when there is one
ExtractedName(m) ==
    IF HasModule(m.data) THEN ModuleOf(m.data).name ELSE NoName

DeviceValue(m) ==
    IF HasModule(m.data) THEN ModuleOf(m.data).device ELSE 1

\* functions of the status document: present and not empty
HasFunctions(m) ==
    /\ HasModule(m.status)
    /\ ModuleOf(m.status).functions.items # <<>>

\* functions[0] == 1
CloudState(m) == ModuleOf(m.status).functions.items[1] = 1

\* The status block raises: "module" is not an object, or functions is
\* neither a list nor empty.
StatusRaises(m) ==
    /\ HasModule(m.status)
    /\ \/ ModuleOf(m.status).module # "dict"
       \/ ModuleOf(m.status).functions.kind # "list"

\* An iteration of the discovery loop raises before it writes the registry
DiscoverRaises(m) ==
    \/ HasModule(m.data) /\ ModuleOf(m.data).module # "dict"
    \/ StatusRaises(m)
    \/ Truthy(ExtractedName(m)) /\ ExtractedName(m).kind # "str"

NoCommand == ""

\* NewDevice that keeps the extracted name as it is, with no default
NewDeviceNoDefault(m) ==
    LET module_name == ExtractedName(m).chars
        device_value == DeviceValue(m)
        current_state == HasFunctions(m) /\ CloudState(m)
        device_type == guess_device_type(module_name, device_value)
        is_dimmable == guess_if_dimmable(module_name, device_type)
    IN  [device_id |-> m.id,
         device_type |-> device_type,
         device_model |-> module_name,
         dimmable |-> is_dimmable,
         zigbee |-> FALSE,
         state |-> current_state,
         brightness |-> IF is_dimmable THEN Some(50) ELSE None,
         position |-> None,
         device_value |-> device_value,
         version_status |-> m.version_status,
         version_data |-> m.version_data,
         last_command |-> NoCommand,
         last_update |-> NoStamp,
         confidence |-> None]

\* The record async_discover_devices builds for a module
NewDevice(m) ==
    LET module_name == IF Truthy(ExtractedName(m)) THEN ExtractedName(m).chars
                       ELSE DefaultName(m.id)
        device_value == DeviceValue(m)
        current_state == HasFunctions(m) /\ CloudState(m)
        device_type == guess_device_type(module_name, device_value)
        is_dimmable == guess_if_dimmable(module_name, device_type)
    IN  [device_id |-> m.id,
         device_type |-> device_type,
         device_model |-> module_name,
         dimmable |-> is_dimmable,
         zigbee |-> FALSE,
         state |-> current_state,
         brightness |-> IF is_dimmable THEN Some(50) ELSE None,
         position |-> None,
         device_value |-> device_value,
         version_status |-> m.version_status,
         version_data |-> m.version_data,
         last_command |-> NoCommand,
         last_update |-> NoStamp,
         confidence |-> None]

\* DiscoverLoop that appends each device under a fresh key instead of
\* storing it under its id
FreshKey(devs) ==
    IF DOMAIN devs = {} THEN 1
    ELSE 1 + CHOOSE k \in DOMAIN devs : \A j \in DOMAIN devs : j <= k

RECURSIVE DiscoverLoopAppend(_, _, _)
DiscoverLoopAppend(mods, i, devs) ==
    IF i > Len(mods) THEN [devices |-> devs, completed |-> TRUE]
    ELSE LET m == mods[i] IN
         IF ~m.idok THEN [devices |-> devs, completed |-> FALSE]
         ELSE IF m.id <= 0 \/ m.id \in entity_blacklist
              THEN DiscoverLoopAppend(mods, i + 1, devs)
         ELSE IF DiscoverRaises(m) THEN [devices |-> devs, completed |-> FALSE]
         ELSE DiscoverLoopAppend(mods, i + 1,
                                 Put(devs, FreshKey(devs), NewDevice(m)))

\* DiscoverLoop that rebuilds the registry from the response alone
RECURSIVE DiscoverLoopRebuild(_, _, _)
DiscoverLoopRebuild(mods, i, devs) ==
    IF i > Len(mods) THEN [devices |-> devs, completed |-> TRUE]
    ELSE LET m == mods[i]
             kept == IF i = 1 THEN <<>> ELSE devs
         IN
         IF ~m.idok THEN [devices |-> kept, completed |-> FALSE]
         ELSE IF m.id <= 0 \/ m.id \in entity_blacklist
              THEN DiscoverLoopRebuild(mods, i + 1, kept)
         ELSE IF DiscoverRaises(m) THEN [devices |-> kept, completed |-> FALSE]
         ELSE DiscoverLoopRebuild(mods, i + 1, Put(kept, m.id, NewDevice(m)))

\* DiscoverLoop that keeps the stamps a command left on a record
RECURSIVE DiscoverLoopKeepsStamps(_, _, _)
DiscoverLoopKeepsStamps(mods, i, devs) ==
    IF i > Len(mods) THEN [devices |-> devs, completed |-> TRUE]
    ELSE LET m == mods[i] IN
         IF ~m.idok THEN [devices |-> devs, completed |-> FALSE]
         ELSE IF m.id <= 0 \/ m.id \in entity_blacklist
              THEN DiscoverLoopKeepsStamps(mods, i + 1, devs)
         ELSE IF DiscoverRaises(m) THEN [devices |-> devs, completed |-> FALSE]
         ELSE DiscoverLoopKeepsStamps(mods, i + 1,
                 Put(devs, m.id,
                     IF m.id \in DOMAIN devs
                     THEN [NewDevice(m) EXCEPT
                              !.last_command = devs[m.id].last_command,
                              !.last_update = devs[m.id].last_update,
                              !.confidence = devs[m.id].confidence]
                     ELSE NewDevice(m)))

\* DiscoverLoop that does not look at the blacklist
RECURSIVE DiscoverLoopNoBlacklist(_, _, _)
DiscoverLoopNoBlacklist(mods, i, devs) ==
    IF i > Len(mods) THEN [devices |-> devs, completed |-> TRUE]
    ELSE LET m == mods[i] IN
         IF ~m.idok THEN [devices |-> devs, completed |-> FALSE]
         ELSE IF m.id <= 0 THEN DiscoverLoopNoBlacklist(mods, i + 1, devs)
         ELSE IF DiscoverRaises(m) THEN [devices |-> devs, completed |-> FALSE]
         ELSE DiscoverLoopNoBlacklist(mods, i + 1, Put(devs, m.id, NewDevice(m)))

\* The loop of async_discover_devices over the response, from module i on:
\* the registry it leaves and whether it ran to the end without raising.
RECURSIVE DiscoverLoop(_, _, _)
DiscoverLoop(mods, i, devs) ==
    IF i > Len(mods) THEN [devices |-> devs, completed |-> TRUE]
    ELSE LET m == mods[i] IN
         IF ~m.idok THEN [devices |-> devs, completed |-> FALSE]
         ELSE IF m.id <= 0 \/ m.id \in entity_blacklist
              THEN DiscoverLoop(mods, i + 1, devs)
         ELSE IF DiscoverRaises(m) THEN [devices |-> devs, completed |-> FALSE]
         ELSE DiscoverLoop(mods, i + 1, Put(devs, m.id, NewDevice(m)))

\* SyncedDevice that stamps the record whether or not the state differs
SyncedDeviceAlways(dev, m, t) ==
    LET merged == IF HasFunctions(m)
                  THEN [dev EXCEPT !.state = CloudState(m),
                                   !.last_update = isoformat(t),
                                   !.confidence = Some(CONFIDENCE_HIGH)]
                  ELSE dev
    IN  [merged EXCEPT !.version_status = m.version_status,
                       !.version_data = m.version_data]

\* What async_update_states does to one registered device
SyncedDevice(dev, m, t) ==
    LET merged == IF HasFunctions(m) /\ CloudState(m) # dev.state
                  THEN [dev EXCEPT !.state = CloudState(m),
                                   !.last_update = isoformat(t),
                                   !.confidence = Some(CONFIDENCE_HIGH)]
                  ELSE dev
    IN  [merged EXCEPT !.version_status = m.version_status,
                       !.version_data = m.version_data]

RECURSIVE UpdateLoop(_, _, _, _)
UpdateLoop(mods, i, devs, t) ==
    IF i > Len(mods) THEN [devices |-> devs, completed |-> TRUE]
    ELSE LET m == mods[i] IN
         IF ~m.idok THEN [devices |-> devs, completed |-> FALSE]
         ELSE IF m.id \notin DOMAIN devs THEN UpdateLoop(mods, i + 1, devs, t)
         ELSE IF StatusRaises(m) THEN [devices |-> devs, completed |-> FALSE]
         ELSE UpdateLoop(mods, i + 1,
                         Put(devs, m.id, SyncedDevice(devs[m.id], m, t)), t)

\* IsList without the status check
IsListAnyStatus(resp) == resp.body = "list"

\* The response is usable: status 200 and a JSON list
IsList(resp) == resp.status = 200 /\ resp.body = "list"

----------------------------------------------------------------------------
\* State manager

\* update_confidence with the one-minute test written <=
update_confidence_le(state, t) ==
    LET last_update == state.last_update IN
    IF last_update.kind # "iso"
    THEN [state EXCEPT !.confidence = Some(CONFIDENCE_UNCERTAIN)]
    ELSE LET age == t - last_update.t IN
         IF age <= ONE_MINUTE
         THEN [state EXCEPT !.confidence = Some(CONFIDENCE_HIGH)]
         ELSE IF age < FIVE_MINUTES
         THEN [state EXCEPT !.confidence = Some(CONFIDENCE_MEDIUM)]
         ELSE IF age < ONE_HOUR
         THEN [state EXCEPT !.confidence = Some(CONFIDENCE_LOW)]
         ELSE [state EXCEPT !.confidence = Some(CONFIDENCE_UNCERTAIN)]

\* update_confidence with the middle tiers exchanged
update_confidence_swapped(state, t) ==
    LET last_update == state.last_update IN
    IF last_update.kind # "iso"
    THEN [state EXCEPT !.confidence = Some(CONFIDENCE_UNCERTAIN)]
    ELSE LET age == t - last_update.t IN
         IF age < ONE_MINUTE
         THEN [state EXCEPT !.confidence = Some(CONFIDENCE_HIGH)]
         ELSE IF age < FIVE_MINUTES
         THEN [state EXCEPT !.confidence = Some(CONFIDENCE_LOW)]
         ELSE IF age < ONE_HOUR
         THEN [state EXCEPT !.confidence = Some(CONFIDENCE_MEDIUM)]
         ELSE [state EXCEPT !.confidence = Some(CONFIDENCE_UNCERTAIN)]

\* StateManager._update_confidence at clock t: the state with its
\* confidence recomputed from the age of last_update
update_confidence(state, t) ==
    LET last_update == state.last_update IN
    IF last_update.kind = "absent"
    THEN [state EXCEPT !.confidence = Some(CONFIDENCE_UNCERTAIN)]
    ELSE IF last_update.kind # "iso"
    THEN [state EXCEPT !.confidence = Some(CONFIDENCE_UNCERTAIN)]
    ELSE LET age == t - last_update.t IN
         IF age < ONE_MINUTE
         THEN [state EXCEPT !.confidence = Some(CONFIDENCE_HIGH)]
         ELSE IF age < FIVE_MINUTES
         THEN [state EXCEPT !.confidence = Some(CONFIDENCE_MEDIUM)]
         ELSE IF age < ONE_HOUR
         THEN [state EXCEPT !.confidence = Some(CONFIDENCE_LOW)]
         ELSE [state EXCEPT !.confidence = Some(CONFIDENCE_UNCERTAIN)]

\* Loaded that reads the store on every call
LoadedAlways(states, loaded, stored) == stored

\* StateManager.async_load: the map in memory once loading is done
Loaded(states, loaded, stored) == IF loaded THEN states ELSE stored

\* StateManager.async_update_device_state: the map after storing a copy
StoredStates(states, loaded, stored, device_id, state) ==
    Put(Loaded(states, loaded, stored), device_id, state)

\* "if len(self._states) % 10 == 0: await self.async_save()"
SavedStore(states, stored) ==
    IF Cardinality(DOMAIN states) % SAVE_EVERY = 0 THEN states ELSE stored

----------------------------------------------------------------------------
\* The record of the last operation

\* op: the operation; name, dev, arg: the command, its device and its
\* argument (for validate_input, name is what it reports); ok: what it returned (for a sync: the cloud gave a list); sent:
\* packets transmitted, and wire: those packets; events: the command events
\* fired; notified: for each state update, the observers called; script: the
\* commands an identify issued; resp: the list a discovery was given; again:
\* the discovery before it was given the same list and no operation came
\* between; completed: the loop over the modules ran to its end.  For an
\* operation called on the state manager itself, reads and writes: the times
\* it read and wrote the store; updates: the update calls made so far.  For
\* the daily task, logins: the cloud logins it made.
NoEv == [op |-> "init", name |-> "", dev |-> 0, arg |-> 0, ok |-> FALSE,
         sent |-> 0, wire |-> <<>>, events |-> <<>>, notified |-> <<>>,
         script |-> <<>>, resp |-> 0, again |-> FALSE, completed |-> FALSE,
         reads |-> 0, writes |-> 0, updates |-> 0, logins |-> 0]

Ev(op) == [NoEv EXCEPT !.op = op]

\* A hub operation starts, within the bound on their number
Started == ops < MaxOps /\ ops' = ops + 1

----------------------------------------------------------------------------
\* Hub: the command packet

HexChars == <<"0","1","2","3","4","5","6","7","8","9","A","B","C","D","E","F">>

\* The value of one hexadecimal digit
HexVal(c) == (CHOOSE i \in DOMAIN HexChars : HexChars[i] = c) - 1

\* bytes.fromhex: one byte for each pair of digits
fromhex(hex) ==
    [i \in 1..(Len(hex) \div 2) |-> 16 * HexVal(hex[2 * i - 1]) + HexVal(hex[2 * i])]

\* bytearray.append accepts only 0..255
IsByte(n) == n >= 0 /\ n <= 255

\* sum(packet)
RECURSIVE Sum(_)
Sum(bytes) == IF bytes = <<>> THEN 0 ELSE Head(bytes) + Sum(Tail(bytes))

\* The byte for the command name
CommandCode(command) ==
    CASE command = "on" -> 1
      [] command = "off" -> 0
      [] command = "dim" -> 2
      [] OTHER -> 1

\* build_command_packet whose checksum leaves out the header
build_command_packet_payload_sum(mac, device_id, command, value) ==
    LET id_byte == IF device_id > 255 THEN device_id % 256 ELSE device_id
        payload == fromhex(mac) \o <<id_byte, CommandCode(command), value % 256>>
    IN  IF IsByte(id_byte)
        THEN Some(<<170, 170>> \o payload \o <<Sum(payload) % 256>>)
        ELSE None

\* build_command_packet that takes the second byte of a large id
build_command_packet_high_byte(mac, device_id, command, value) ==
    LET id_byte == IF device_id > 255 THEN (device_id \div 256) % 256
                   ELSE device_id
        body == <<170, 170>> \o fromhex(mac)
                \o <<id_byte, CommandCode(command), value % 256>>
    IN  IF IsByte(id_byte) THEN Some(body \o <<Sum(body) % 256>>) ELSE None

\* build_command_packet with the value before the command code
build_command_packet_swapped(mac, device_id, command, value) ==
    LET id_byte == IF device_id > 255 THEN device_id % 256 ELSE device_id
        body == <<170, 170>> \o fromhex(mac)
                \o <<id_byte, value % 256, CommandCode(command)>>
    IN  IF IsByte(id_byte) THEN Some(body \o <<Sum(body) % 256>>) ELSE None

\* _build_command_packet for a hub whose mac is the given hex text: the
\* bytes of the packet, or None when append raises ValueError
build_command_packet(mac, device_id, command, value) ==
    LET id_byte == IF device_id > 255 THEN device_id % 256 ELSE device_id
        body == <<170, 170>> \o fromhex(mac)
                \o <<id_byte, CommandCode(command), value % 256>>
    IN  IF IsByte(id_byte) THEN Some(body \o <<Sum(body) % 256>>) ELSE None

----------------------------------------------------------------------------
\* Hub: commands

PyBool(b) == IF b THEN "True" ELSE "False"

\* The state_update dicts the commands pass to _update_device_state
StateUpdate(on) == [state |-> Some(on), brightness |-> None, position |-> None]
BrightnessUpdate(pct) ==
    [state |-> Some(pct > 0), brightness |-> Some(pct), position |-> None]
PositionUpdate(pos) == [state |-> None, brightness |-> None, position |-> Some(pos)]

\* str(state_update)
str(u) ==
    IF u.position # None THEN "{'position': " \o ToString(u.position[1]) \o "}"
    ELSE IF u.brightness # None
    THEN "{'state': " \o PyBool(u.state[1]) \o ", 'brightness': "
         \o ToString(u.brightness[1]) \o "}"
    ELSE "{'state': " \o PyBool(u.state[1]) \o "}"

\* UpdatedDevice without the confidence stamp
UpdatedDeviceNoConfidence(device, u, t) ==
    [device EXCEPT !.state = IF u.state # None THEN u.state[1] ELSE @,
                   !.brightness = IF u.brightness # None THEN u.brightness ELSE @,
                   !.position = IF u.position # None THEN u.position ELSE @,
                   !.last_command = str(u),
                   !.last_update = isoformat(t)]

\* device.update(state_update) and the three stamps of _update_device_state
UpdatedDevice(device, u, t) ==
    [device EXCEPT !.state = IF u.state # None THEN u.state[1] ELSE @,
                   !.brightness = IF u.brightness # None THEN u.brightness ELSE @,
                   !.position = IF u.position # None THEN u.position ELSE @,
                   !.last_command = str(u),
                   !.last_update = isoformat(t),
                   !.confidence = Some(CONFIDENCE_HIGH)]

\* ApplyUpdates that registers a device it does not find
RECURSIVE ApplyUpdatesCreates(_, _, _, _, _)
ApplyUpdatesCreates(hub, device_id, updates, i, t) ==
    IF i > Len(updates) THEN hub
    ELSE LET old == IF device_id \in DOMAIN hub.devices
                    THEN hub.devices[device_id]
                    ELSE NewDevice(Module(device_id, NoBlob, NoBlob, 1))
             device == UpdatedDevice(old, updates[i], t)
             states == StoredStates(hub.states, hub.loaded, hub.store,
                                    device_id, device)
         IN  ApplyUpdatesCreates([devices |-> Put(hub.devices, device_id, device),
                                  states |-> states,
                                  loaded |-> TRUE,
                                  store |-> SavedStore(states, hub.store)],
                                 device_id, updates, i + 1, t)

\* _update_device_state applied for each update of a command in turn: the
\* registry, and the state manager's map, loaded flag and store
RECURSIVE ApplyUpdates(_, _, _, _, _)
ApplyUpdates(hub, device_id, updates, i, t) ==
    IF i > Len(updates) \/ device_id \notin DOMAIN hub.devices THEN hub
    ELSE LET device == UpdatedDevice(hub.devices[device_id], updates[i], t)
             states == StoredStates(hub.states, hub.loaded, hub.store,
                                    device_id, device)
         IN  ApplyUpdates([devices |-> Put(hub.devices, device_id, device),
                           states |-> states,
                           loaded |-> TRUE,
                           store |-> SavedStore(states, hub.store)],
                          device_id, updates, i + 1, t)

\* What a hub command sends and which updates follow its success
OnPlan == [command |-> "on", value |-> 0, updates |-> <<StateUpdate(TRUE)>>]
OffPlan == [command |-> "off", value |-> 0, updates |-> <<StateUpdate(FALSE)>>]

IsDimmable(device_id) ==
    device_id \in DOMAIN devices /\ devices[device_id].dimmable

\* Plan whose cover position 50 already sends on
PlanCoverFromFifty(name, device_id, arg) ==
    CASE name = "turn_on" -> OnPlan
      [] name = "turn_off" -> OffPlan
      [] name = "set_brightness" ->
            IF ~IsDimmable(device_id)
            THEN (IF arg > 0 THEN OnPlan ELSE OffPlan)
            ELSE [command |-> "dim", value |-> (arg * 255) \div 100,
                  updates |-> <<BrightnessUpdate(arg)>>]
      [] name = "set_cover_position" ->
            LET p == IF arg >= 50 THEN OnPlan ELSE OffPlan
            IN  [p EXCEPT !.updates = @ \o <<PositionUpdate(arg)>>]

Plan(name, device_id, arg) ==
    CASE name = "turn_on" -> OnPlan
      [] name = "turn_off" -> OffPlan
      [] name = "set_brightness" ->
            IF ~IsDimmable(device_id)
            THEN (IF arg > 0 THEN OnPlan ELSE OffPlan)
            ELSE [command |-> "dim", value |-> (arg * 255) \div 100,
                  updates |-> <<BrightnessUpdate(arg)>>]
      [] name = "set_cover_position" ->
            LET p == IF arg > 50 THEN OnPlan ELSE OffPlan
            IN  [p EXCEPT !.updates = @ \o <<PositionUpdate(arg)>>]

\* hub.tries
tries == DEFAULT_TRIES

\* hub.mac: twelve hexadecimal digits
mac == <<"0","0","1","2","A","B","C","D","E","F","F","F">>

\* hub._state_callbacks: what each registered observer does when called
state_callbacks == <<"raises", "returns">>

\* The loop over the observers: each is called, and one that raises is
\* logged and the loop goes on
RECURSIVE NotifyLoop(_, _, _)
NotifyLoop(callbacks, i, called) ==
    IF i > Len(callbacks) THEN called
    ELSE NotifyLoop(callbacks, i + 1, Append(called, i))

\* The event _update_device_state fires for one update
CommandEvent(device_id, u) ==
    [hub |-> mac, device_id |-> device_id, command |-> str(u), success |-> TRUE]

\* The command events of a command and the observers called for each of
\* its updates: none unless the send succeeded and the device is registered
Events(c, ok) ==
    IF ok /\ c.dev \in DOMAIN devices
    THEN [i \in DOMAIN c.plan.updates |-> CommandEvent(c.dev, c.plan.updates[i])]
    ELSE <<>>

Notified(c, ok) ==
    IF ok /\ c.dev \in DOMAIN devices
    THEN [i \in DOMAIN c.plan.updates |-> NotifyLoop(state_callbacks, 1, <<>>)]
    ELSE <<>>

\* The packets on the wire after sent sends of the command
Wire(c, sent) == [i \in 1..sent |-> c.packet[1]]

\* What is left of the calling coroutine when a command returns: nothing
\* for a command called on its own; for a command issued by
\* async_identify_device, the identify asleep before its next command
Rest(c, ok) ==
    IF c.identify
    THEN Some([c EXCEPT !.attempt = 0,
                        !.done = Append(@, [name |-> c.name, ok |-> ok])])
    ELSE None

\* The inputs of the commands
CmdIds == {1}
Commands ==
    ({"turn_on", "turn_off"} \X CmdIds \X {0})
    \cup ({"set_brightness"} \X CmdIds \X {40})
    \cup ({"set_cover_position"} \X CmdIds \X {51})

\* Finish that updates the state and creates the refresh whatever the send
\* returned
FinishUnchecked(c, ok, sent) ==
    LET hub == [devices |-> devices, states |-> sm_states,
                loaded |-> sm_loaded, store |-> store]
        after == ApplyUpdates(hub, c.dev, c.plan.updates, 1, now)
    IN  /\ devices' = after.devices
        /\ sm_states' = after.states
        /\ sm_loaded' = after.loaded
        /\ store' = after.store
        /\ pending' = pending + 1
        /\ sending' = Rest(c, ok)
        /\ ev' = [Ev("command") EXCEPT !.name = c.name, !.dev = c.dev,
                     !.arg = c.arg, !.ok = ok, !.sent = sent,
                     !.wire = Wire(c, sent), !.events = Events(c, ok),
                     !.notified = Notified(c, ok)]
        /\ UNCHANGED <<now, ip_address, aes_key, connected, confvars>>

\* The command returns: after a successful send the state is updated and a
\* delayed refresh is created; after a socket error nothing is.
Finish(c, ok, sent) ==
    LET hub == [devices |-> devices, states |-> sm_states,
                loaded |-> sm_loaded, store |-> store]
        after == IF ok THEN ApplyUpdates(hub, c.dev, c.plan.updates, 1, now)
                 ELSE hub
    IN  /\ devices' = after.devices
        /\ sm_states' = after.states
        /\ sm_loaded' = after.loaded
        /\ store' = after.store
        /\ pending' = IF ok THEN pending + 1 ELSE pending
        /\ sending' = Rest(c, ok)
        /\ ev' = [Ev("command") EXCEPT !.name = c.name, !.dev = c.dev,
                     !.arg = c.arg, !.ok = ok, !.sent = sent,
                     !.wire = Wire(c, sent), !.events = Events(c, ok),
                     !.notified = Notified(c, ok)]
        /\ UNCHANGED <<now, ip_address, aes_key, connected, confvars>>

\* A command as it is called: what it sends, the updates that follow its
\* success, and for async_identify_device the commands still to issue
\* (script) and those that returned (done)
Call(name, device_id, arg, identify, script, done) ==
    LET plan == Plan(name, device_id, arg)
    IN  [name |-> name, dev |-> device_id, arg |-> arg, plan |-> plan,
         packet |-> build_command_packet(mac, device_id, plan.command, plan.value),
         attempt |-> 1, identify |-> identify, script |-> script, done |-> done]

\* The command up to the first sleep of the retry loop: with no IP it
\* returns at once; a packet that cannot be built or a socket error makes it
\* return False
Begin(c) ==
    IF ~ip_address THEN Finish(c, TRUE, 0)
    ELSE IF c.packet = None THEN Finish(c, FALSE, 0)
    ELSE \E socket_error \in BOOLEAN :
           IF socket_error THEN Finish(c, FALSE, 0)
           ELSE IF tries = 1 THEN Finish(c, TRUE, 1)
           ELSE /\ sending' = Some(c)
                /\ ev' = Ev("send")
                /\ UNCHANGED <<now, ip_address, aes_key, connected,
                               devices, pending, smvars, confvars>>

\* async_turn_on, async_turn_off, async_set_brightness,
\* async_set_cover_position up to the first sleep of the retry loop
StartCommand(name, device_id, arg) ==
    /\ Started
    /\ sending = None
    /\ pending < MaxPending
    /\ Begin(Call(name, device_id, arg, FALSE, <<>>, <<>>))

\* IdentifyScript of two cycles
IdentifyScriptTwoCycles == <<"turn_off", "turn_on", "turn_off">>

\* async_identify_device: the first turn_on of three on/off cycles
IdentifyScript ==
    <<"turn_off", "turn_on", "turn_off", "turn_on", "turn_off">>

Identify(device_id) ==
    /\ Started
    /\ sending = None
    /\ pending < MaxPending
    /\ Begin(Call("turn_on", device_id, 0, TRUE, IdentifyScript, <<>>))

\* async_identify_device wakes from its sleep: it issues the next command
\* of the cycles, or returns True when none is left
IdentifyNext ==
    /\ sending # None
    /\ sending[1].attempt = 0
    /\ UNCHANGED ops
    /\ LET c == sending[1] IN
       IF c.script = <<>>
       THEN /\ sending' = None
            /\ ev' = [Ev("identify") EXCEPT !.dev = c.dev, !.ok = TRUE,
                                            !.script = c.done]
            /\ UNCHANGED <<now, ip_address, aes_key, connected, devices,
                           pending, smvars, confvars>>
       ELSE Begin(Call(Head(c.script), c.dev, 0, TRUE, Tail(c.script), c.done))

\* SendStep whose loop stops one send early
SendStepOneShort ==
    /\ sending # None
    /\ sending[1].attempt > 0
    /\ UNCHANGED ops
    /\ LET c == sending[1] IN
       \E socket_error \in BOOLEAN :
          IF socket_error THEN Finish(c, FALSE, c.attempt)
          ELSE Finish(c, TRUE, c.attempt + 1)

\* The next sendto of the retry loop
SendStep ==
    /\ sending # None
    /\ sending[1].attempt > 0
    /\ UNCHANGED ops
    /\ LET c == sending[1] IN
       \E socket_error \in BOOLEAN :
          IF socket_error THEN Finish(c, FALSE, c.attempt)
          ELSE IF c.attempt + 1 = tries THEN Finish(c, TRUE, tries)
          ELSE /\ sending' = Some([c EXCEPT !.attempt = @ + 1])
               /\ ev' = Ev("send")
               /\ UNCHANGED <<now, ip_address, aes_key, connected,
                              devices, pending, smvars, confvars>>

----------------------------------------------------------------------------
\* Hub: connect, discovery, sync

\* Connect that marks the hub connected whatever the authentication gave
ConnectUnchecked(auth_ok, local) ==
    /\ Started
    /\ IF connected
       THEN UNCHANGED <<ip_address, aes_key, connected>>
       ELSE /\ aes_key' = (aes_key \/ auth_ok)
            /\ ip_address' = (ip_address \/ local = "found")
            /\ connected' = TRUE
    /\ ev' = [Ev("connect") EXCEPT !.ok = connected']
    /\ UNCHANGED <<now, devices, pending, sending, smvars, confvars>>

\* async_connect: authentication, then local discovery when no IP is known.
\* local is what _async_discover_local returns: "found" or "none".
Connect(auth_ok, local) ==
    /\ Started
    /\ IF connected \/ ~auth_ok
       THEN UNCHANGED <<ip_address, aes_key, connected>>
       ELSE /\ aes_key' = TRUE
            /\ ip_address' = (ip_address \/ local = "found")
            /\ connected' = TRUE
    /\ ev' = [Ev("connect") EXCEPT !.ok = connected']
    /\ UNCHANGED <<now, devices, pending, sending, smvars, confvars>>

\* async_discover_devices, with r the response the cloud gives
Discover(r) ==
    LET resp == Responses[r]
        run == IF aes_key /\ IsList(resp)
               THEN DiscoverLoop(resp.modules, 1, devices)
               ELSE [devices |-> devices, completed |-> FALSE]
    IN  /\ Started
        /\ devices' = run.devices
        /\ ev' = [Ev("discover") EXCEPT
                     !.resp = IF aes_key /\ IsList(resp) THEN r ELSE 0,
                     !.ok = aes_key /\ IsList(resp),
                     !.completed = run.completed,
                     !.again = (aes_key /\ IsList(resp) /\ ev.op = "discover"
                                /\ ev.resp = r)]
        /\ UNCHANGED <<now, ip_address, aes_key, connected, pending, sending,
                       smvars, confvars>>

\* What async_update_states leaves in the registry
Synced(r, devs, t) ==
    IF aes_key /\ IsList(Responses[r])
    THEN UpdateLoop(Responses[r].modules, 1, devs, t)
    ELSE [devices |-> devs, completed |-> FALSE]

\* async_update_states called by the coordinator's poll
UpdateStates(r) ==
    /\ Started
    /\ devices' = Synced(r, devices, now).devices
    /\ ev' = [Ev("sync") EXCEPT
                 !.ok = aes_key /\ IsList(Responses[r]),
                 !.completed = Synced(r, devices, now).completed]
    /\ UNCHANGED <<now, ip_address, aes_key, connected, pending, sending,
                   smvars, confvars>>

\* DelayedRefresh that cancels the other refresh tasks still asleep
DelayedRefreshCancelsOthers(r) ==
    /\ Started
    /\ pending > 0
    /\ pending' = 0
    /\ devices' = Synced(r, devices, now).devices
    /\ ev' = [Ev("refresh") EXCEPT
                 !.ok = aes_key /\ IsList(Responses[r]),
                 !.completed = Synced(r, devices, now).completed]
    /\ UNCHANGED <<now, ip_address, aes_key, connected, sending,
                   smvars, confvars>>

\* _delayed_state_refresh: a task created by a command wakes up and syncs
DelayedRefresh(r) ==
    /\ Started
    /\ pending > 0
    /\ pending' = pending - 1
    /\ devices' = Synced(r, devices, now).devices
    /\ ev' = [Ev("refresh") EXCEPT
                 !.ok = aes_key /\ IsList(Responses[r]),
                 !.completed = Synced(r, devices, now).completed]
    /\ UNCHANGED <<now, ip_address, aes_key, connected, sending,
                   smvars, confvars>>

\* hub.get_device: the registry record itself, or None
get_device(device_id) ==
    IF device_id \in DOMAIN devices THEN Some(devices[device_id]) ELSE None

\* An entity reads a device through hub.get_device: nothing changes
HubGet(device_id) ==
    /\ Len(get_device(device_id)) <= 1
    /\ UNCHANGED vars

----------------------------------------------------------------------------
\* State manager: load and reads

SMLoad ==
    /\ sm_states' = Loaded(sm_states, sm_loaded, store)
    /\ sm_loaded' = TRUE
    /\ UNCHANGED <<now, hubvars, store, ev, confvars, ops>>

\* What async_get_device_state returns at clock t: the stored state with
\* its confidence recomputed, or None
get_device_state(device_id, t) ==
    LET states == Loaded(sm_states, sm_loaded, store) IN
    IF device_id \in DOMAIN states
    THEN Some(update_confidence(states[device_id], t))
    ELSE None

\* What async_get_all_states returns at clock t
get_all_states(t) ==
    LET states == Loaded(sm_states, sm_loaded, store) IN
    [d \in DOMAIN states |-> update_confidence(states[d], t)]

\* async_get_device_state: the dict it returns is the stored one, so the
\* recomputed confidence is written into the map
SMGet(device_id) ==
    LET states == Loaded(sm_states, sm_loaded, store) IN
    /\ sm_loaded' = TRUE
    /\ sm_states' = IF get_device_state(device_id, now) # None
                    THEN Put(states, device_id, get_device_state(device_id, now)[1])
                    ELSE states
    /\ UNCHANGED <<now, hubvars, store, ev, confvars, ops>>

\* async_get_all_states
SMGetAll ==
    /\ sm_loaded' = TRUE
    /\ sm_states' = get_all_states(now)
    /\ UNCHANGED <<now, hubvars, store, ev, confvars, ops>>

----------------------------------------------------------------------------
\* The clock

Tick ==
    /\ \E t \in TimePoints : t > now /\ t <= MaxTime /\ now' = t
    /\ UNCHANGED <<hubvars, smvars, ev, confvars, ops>>

----------------------------------------------------------------------------
\* The specification

\* A state saved by an earlier run: device 1 switched on at time 0
SavedDevice ==
    [NewDevice(Responses[5].modules[1]) EXCEPT
        !.last_command = str(StateUpdate(TRUE)),
        !.last_update = isoformat(0),
        !.confidence = Some(CONFIDENCE_HIGH)]

NoConfInput == [state |-> [last_update |-> NoStamp, confidence |-> None], t |-> 0]

Init ==
    /\ ops = 0
    /\ awaiting = <<>>
    /\ now = 0
    /\ ip_address \in BOOLEAN
    /\ aes_key = FALSE
    /\ connected = FALSE
    /\ devices = <<>>
    /\ pending = 0
    /\ sending = None
    /\ sm_states = <<>>
    /\ sm_loaded = FALSE
    /\ store = Put(<<>>, 1, SavedDevice)
    /\ ev = NoEv
    /\ conf_in = NoConfInput
    /\ conf_out = None
    /\ pure_in = None
    /\ pure_out = None

\* The devices read
ReadIds == {1}

Next ==
    \/ \E auth_ok \in BOOLEAN, local \in {"found", "none"} :
          Connect(auth_ok, local)
    \/ \E r \in RespIds : Discover(r)
    \/ \E r \in RespIds : UpdateStates(r)
    \/ \E r \in RespIds : DelayedRefresh(r)
    \/ \E c \in Commands : StartCommand(c[1], c[2], c[3])
    \/ SendStep
    \/ \E d \in ReadIds : HubGet(d)
    \/ SMLoad
    \/ \E d \in ReadIds : SMGet(d)
    \/ SMGetAll
    \/ Tick

Spec == Init /\ [][Next]_vars

----------------------------------------------------------------------------
\* _update_confidence on its own: any stored state at any clock

ConfStamps == {NoStamp, BadStamp, isoformat(0), isoformat(1)}
ConfClocks == {0, 1, 59, 60, 61, 299, 300, 301, 3599, 3600, 3601}
ConfValues == {None, Some(CONFIDENCE_HIGH), Some(CONFIDENCE_MEDIUM),
               Some(CONFIDENCE_LOW), Some(CONFIDENCE_UNCERTAIN)}

ConfInit ==
    /\ ops = 0
    /\ awaiting = <<>>
    /\ now = 0
    /\ ip_address = FALSE
    /\ aes_key = FALSE
    /\ connected = FALSE
    /\ devices = <<>>
    /\ pending = 0
    /\ sending = None
    /\ sm_states = <<>>
    /\ sm_loaded = FALSE
    /\ store = <<>>
    /\ ev = NoEv
    /\ conf_in \in [state : [last_update : ConfStamps, confidence : ConfValues],
                    t : ConfClocks]
    /\ conf_out = None
    /\ pure_in = None
    /\ pure_out = None

ConfApply ==
    /\ conf_out = None
    /\ conf_out' = Some(update_confidence(conf_in.state, conf_in.t))
    /\ UNCHANGED <<now, hubvars, smvars, ev, ops, conf_in, pure_in, pure_out, awaiting>>

SpecConf == ConfInit /\ [][ConfApply]_vars

----------------------------------------------------------------------------
\* Properties

\* A hub operation ran in this step (the clock and the reads leave ev as it is)
Acted == ops' # ops \/ sending' # sending

\* The confidence tier of a timestamp read at clock t
Tier(last_update, t) ==
    IF last_update.kind # "iso" THEN 40
    ELSE IF t - last_update.t < 60 THEN 100
    ELSE IF t - last_update.t < 300 THEN 80
    ELSE IF t - last_update.t < 3600 THEN 60
    ELSE 40

\* C1: with no known local IP, turn_on of a registered device transmits no
\* packet, returns success, leaves the device on with confidence 100 and
\* last_update = now, and creates exactly one delayed refresh.
C1_TurnOnWithoutIp ==
    [][(Acted /\ ev'.op = "command" /\ ev'.name = "turn_on"
        /\ ~ip_address /\ ev'.dev \in DOMAIN devices)
       => /\ ev'.ok
          /\ ev'.sent = 0
          /\ ev'.dev \in DOMAIN devices'
          /\ devices'[ev'.dev].state = TRUE
          /\ devices'[ev'.dev].confidence = <<100>>
          /\ devices'[ev'.dev].last_update = [kind |-> "iso", t |-> now]
          /\ pending' = pending + 1]_vars

C1_Witness ==
    /\ ev.op = "command" /\ ev.name = "turn_on" /\ ev.ok /\ ev.sent = 0
    /\ ~ip_address
    /\ ev.dev \in DOMAIN devices
    /\ devices[ev.dev].last_command = "{'state': True}"
    /\ pending = 1

\* The sync decodes the status of module i: no module before it made the
\* loop raise, and its own status decrypts to a module with a function list
SyncDecodes(mods, i) ==
    /\ \A j \in 1..i :
          /\ mods[j].idok
          /\ (mods[j].id \in DOMAIN devices /\ mods[j].status.kind = "json"
                 /\ mods[j].status.doc.module # "missing")
                => /\ mods[j].status.doc.module = "dict"
                   /\ mods[j].status.doc.functions.kind = "list"
    /\ mods[i].id \in DOMAIN devices
    /\ mods[i].status.kind = "json"
    /\ mods[i].status.doc.module = "dict"
    /\ mods[i].status.doc.functions.items # <<>>

CallFails(r) ==
    \/ Responses[r].status # 200
    \/ Responses[r].body # "list"
    \/ Responses[r].modules = <<>>

\* C3: a discovery or sync whose cloud call fails leaves the registry as it
\* was.
C3_FailedCallKeepsRegistry ==
    [][\A r \in RespIds :
        (CallFails(r) /\ (Discover(r) \/ UpdateStates(r) \/ DelayedRefresh(r)))
        => devices' = devices]_vars

C3_Witness ==
    /\ ev.op \in {"discover", "sync", "refresh"}
    /\ aes_key /\ ~ev.ok
    /\ devices # <<>>

\* A module that discovery can decode and classify
Sound(m) ==
    /\ m.idok /\ m.id > 0 /\ m.id \notin entity_blacklist
    /\ m.data.kind = "json" => m.data.doc.module = "dict" /\ m.data.doc.name.kind # "int"
    /\ m.status.kind = "json" =>
          m.status.doc.module = "dict" /\ m.status.doc.functions.kind = "list"

\* C4: when discovery returns, every module of the response that has a
\* positive, non-blacklisted id and does not itself fail to decode or
\* classify is in the registry, whatever happened to the other modules.
C4_OtherModulesKept ==
    (ev.op = "discover" /\ ev.ok)
    => \A i \in DOMAIN Responses[ev.resp].modules :
          Sound(Responses[ev.resp].modules[i])
          => Responses[ev.resp].modules[i].id \in DOMAIN devices

\* C5: after a discovery that ran through the response, every module with a
\* usable id is registered, and one whose status blob does not decrypt has
\* state off and confidence 40.
C5_UndecryptableStatusIsUncertain ==
    (ev.op = "discover" /\ ev.ok /\ ev.completed)
    => \A i \in DOMAIN Responses[ev.resp].modules :
          LET m == Responses[ev.resp].modules[i] IN
          (m.idok /\ m.id > 0 /\ m.id \notin entity_blacklist)
          => /\ m.id \in DOMAIN devices
             /\ m.status.kind = "undecodable"
                  => /\ devices[m.id].state = FALSE
                     /\ devices[m.id].confidence = <<40>>

\* C6: a discovery given the same list as the discovery before it, with no
\* other hub operation in between, leaves the registry as the first left it.
C6_DiscoveryIdempotent ==
    [][(Acted /\ ev'.op = "discover" /\ ev'.again) => devices' = devices]_vars

C6_Witness ==
    /\ ev.op = "discover" /\ ev.again
    /\ Cardinality(DOMAIN devices) = 3

\* C7: the confidence computed for a stored state depends on the age of
\* last_update alone: under 1 min 100, under 5 min 80, under 1 hour 60,
\* otherwise (or with last_update missing or unparseable) 40.
C7_ConfidenceByAge ==
    conf_out # None
    => /\ conf_out[1].confidence = <<Tier(conf_in.state.last_update, conf_in.t)>>
       /\ conf_out[1].last_update = conf_in.state.last_update

C7_Witness ==
    /\ conf_out # None
    /\ conf_in.state.last_update = [kind |-> "iso", t |-> 0]
    /\ conf_in.t = 60
    /\ conf_in.state.confidence = <<40>>
    /\ conf_out[1].confidence = <<80>>

\* C8: while no hub operation writes a state, the confidence the state
\* manager holds for it after a step (what the latest read returned) is
\* never above the one before the step.
C8_ConfidenceNeverIncreases ==
    [][~Acted =>
        \A d \in DOMAIN Loaded(sm_states, sm_loaded, store) :
            d \in DOMAIN sm_states'
            => sm_states'[d].confidence[1]
                  <= Loaded(sm_states, sm_loaded, store)[d].confidence[1]]_vars

C8_Witness ==
    /\ sm_loaded
    /\ 1 \in DOMAIN sm_states
    /\ sm_states[1].last_update = [kind |-> "iso", t |-> 0]
    /\ sm_states[1].confidence = <<60>>
    /\ now = 3600

\* C9: every read of a stored state, through the state manager's get and
\* get-all and through the hub's registry read, returns the confidence of
\* the state's age at the time of the read.
C9_ReadsReturnCurrentConfidence ==
    /\ \A d \in ReadIds :
          get_device_state(d, now) # None
          => get_device_state(d, now)[1].confidence
                = <<Tier(get_device_state(d, now)[1].last_update, now)>>
    /\ \A d \in DOMAIN get_all_states(now) :
          get_all_states(now)[d].confidence
             = <<Tier(get_all_states(now)[d].last_update, now)>>
    /\ \A d \in ReadIds :
          (get_device(d) # None /\ get_device(d)[1].confidence # None)
          => get_device(d)[1].confidence
                = <<Tier(get_device(d)[1].last_update, now)>>

\* C10: a command whose send meets a socket error returns false, and a
\* command that returns false leaves the registry, the delayed refreshes and
\* the state manager as they were.
C10_SocketErrorChangesNothing ==
    [][(Acted /\ ev'.op = "command")
       => /\ (ip_address /\ ev'.sent < tries) => ~ev'.ok
          /\ ~ev'.ok => /\ devices' = devices
                        /\ pending' = pending
                        /\ sm_states' = sm_states
                        /\ sm_loaded' = sm_loaded
                        /\ store' = store]_vars

C10_Witness ==
    /\ ev.op = "command" /\ ~ev.ok /\ ev.sent = 2
    /\ ip_address
    /\ ev.dev \in DOMAIN devices
    /\ devices[ev.dev].last_command = ""

----------------------------------------------------------------------------
\* _build_command_packet on its own: any hub mac, device id, command, value

PacketMacs == {<<"0","0","1","2","A","B","C","D","E","F","F","F">>,
               <<"A","A","B","B","C","C","0","1","0","2","0","3">>}
PacketIds == {-1, 0, 1, 2, 255, 256, 257, 511, 26087308}
PacketCommands == {"on", "off", "dim", "blink"}
PacketValues == {-1, 0, 1, 102, 127, 255, 256, 300}

PacketInit ==
    /\ ops = 0
    /\ awaiting = <<>>
    /\ now = 0
    /\ ip_address = FALSE
    /\ aes_key = FALSE
    /\ connected = FALSE
    /\ devices = <<>>
    /\ pending = 0
    /\ sending = None
    /\ sm_states = <<>>
    /\ sm_loaded = FALSE
    /\ store = <<>>
    /\ ev = NoEv
    /\ conf_in = NoConfInput
    /\ conf_out = None
    /\ pure_in \in {Some(x) : x \in [mac : PacketMacs, device_id : PacketIds,
                                    command : PacketCommands, value : PacketValues]}
    /\ pure_out = None

PacketApply ==
    /\ pure_out = None
    /\ pure_out' = Some(build_command_packet(pure_in[1].mac, pure_in[1].device_id,
                                             pure_in[1].command, pure_in[1].value))
    /\ UNCHANGED <<now, hubvars, smvars, ev, ops, conf_in, conf_out, pure_in, awaiting>>

SpecPacket == PacketInit /\ [][PacketApply]_vars

\* The packet the stand-alone run built
Built == pure_out # None /\ pure_out[1] # None
Packet == pure_out[1][1]

\* C14: the last byte of a built packet is the sum of all the bytes before
\* it, modulo 256.
C14_Checksum ==
    Built => /\ Len(Packet) > 1
             /\ Packet[Len(Packet)]
                   = Sum(SubSeq(Packet, 1, Len(Packet) - 1)) % 256

C14_Witness ==
    /\ Built
    /\ pure_in[1].device_id = 511 /\ pure_in[1].value = 300
    /\ Packet[Len(Packet)] # 0

MacBytes(hex) ==
    IF hex[1] = "0" THEN <<0, 18, 171, 205, 239, 255>>
    ELSE <<170, 187, 204, 1, 2, 3>>

\* C16: a built packet is 12 bytes: the two header bytes, the six bytes of
\* the mac, the device-id byte, the command code (on 1, off 0, dim 2), the
\* value modulo 256 and the checksum.
C16_PacketLayout ==
    Built => /\ Len(Packet) = 12
             /\ SubSeq(Packet, 1, 2) = <<170, 170>>
             /\ SubSeq(Packet, 3, 8) = MacBytes(pure_in[1].mac)
             /\ Packet[9] \in 0..255
             /\ pure_in[1].command = "on" => Packet[10] = 1
             /\ pure_in[1].command = "off" => Packet[10] = 0
             /\ pure_in[1].command = "dim" => Packet[10] = 2
             /\ Packet[11] \in 0..255
             /\ \E k \in -1..1 : pure_in[1].value = Packet[11] + 256 * k
             /\ Packet[12] \in 0..255

C16_Witness ==
    /\ Built
    /\ pure_in[1].command = "dim" /\ pure_in[1].value = 300
    /\ pure_in[1].mac[1] = "A" /\ pure_in[1].device_id = 1
    /\ Packet = <<170, 170, 170, 187, 204, 1, 2, 3, 1, 2, 44, 186>>

----------------------------------------------------------------------------
\* _guess_device_type on its own: any name and device value

TypeNames ==
    { <<"L","a","m","p">>,
      <<"P","l","u","g">>,
      <<"D","i","m"," ","l","a","m","p">>,
      <<"M","o","t","i","o","n"," ","l","i","g","h","t">>,
      <<"P","I","R">>,
      <<"S","o","c","k","e","t">>,
      <<"C","o","v","e","r">>,
      <<"D","o","o","r">>,
      <<"F","a","n">>,
      <<"D","i","m","m","e","r"," ","s","w","i","t","c","h">>,
      <<"B","l","i","n","d">>,
      <<"X">> }
TypeValues == 0..6

TypeInit ==
    /\ ops = 0
    /\ awaiting = <<>>
    /\ now = 0
    /\ ip_address = FALSE
    /\ aes_key = FALSE
    /\ connected = FALSE
    /\ devices = <<>>
    /\ pending = 0
    /\ sending = None
    /\ sm_states = <<>>
    /\ sm_loaded = FALSE
    /\ store = <<>>
    /\ ev = NoEv
    /\ conf_in = NoConfInput
    /\ conf_out = None
    /\ pure_in \in {Some(x) : x \in [name : TypeNames, device_value : TypeValues]}
    /\ pure_out = None

TypeApply ==
    /\ pure_out = None
    /\ pure_out' = Some(guess_device_type(pure_in[1].name, pure_in[1].device_value))
    /\ UNCHANGED <<now, hubvars, smvars, ev, ops, conf_in, conf_out, pure_in, awaiting>>

SpecType == TypeInit /\ [][TypeApply]_vars

\* The ordered rule table: the type of the first rule with a word in the
\* lowercased name, or "" when no rule has one
RuleType(name_lower) ==
    IF AnyWord(name_lower, {<<"s","e","n","s","o","r">>, <<"m","o","t","i","o","n">>, <<"d","e","t","e","c","t","o","r">>, <<"p","i","r">>})
    THEN "sensor"
    ELSE IF AnyWord(name_lower, {<<"d","i","m","m","e","r">>, <<"d","i","m">>, <<"b","r","i","g","h","t","n","e","s","s">>})
    THEN "dimmer"
    ELSE IF AnyWord(name_lower, {<<"l","a","m","p">>, <<"l","i","g","h","t">>, <<"b","u","l","b">>, <<"l","e","d">>})
    THEN "light"
    ELSE IF AnyWord(name_lower, {<<"b","l","i","n","d">>, <<"s","h","u","t","t","e","r">>, <<"c","u","r","t","a","i","n">>, <<"c","o","v","e","r">>})
    THEN "cover"
    ELSE IF AnyWord(name_lower, {<<"p","l","u","g">>, <<"s","o","c","k","e","t">>, <<"o","u","t","l","e","t">>, <<"s","w","i","t","c","h">>})
    THEN "switch"
    ELSE ""

\* C20: type inference returns the type of the first rule, in the order
\* sensor, dimmer, light, cover, switch, that has a word in the name, in any
\* letter case.
C20_TypeRuleOrder ==
    (pure_out # None /\ RuleType(lower(pure_in[1].name)) # "")
    => pure_out[1] = RuleType(lower(pure_in[1].name))

----------------------------------------------------------------------------
\* The commands on their own: a hub that is set up (connected, the devices
\* of Responses[6] discovered, the state manager loaded) is given commands

CommandInputs ==
    ({"turn_on", "turn_off"} \X {1, 2, 9} \X {0})
    \cup ({"set_brightness"} \X {1, 2} \X {0, 1, 50, 100})
    \cup ({"set_cover_position"} \X {2} \X {0, 50, 51, 100})

IdentifyIds == {1, 9}

\* The sync responses the delayed refreshes get
RefreshIds == {4, 6}

CmdInit ==
    /\ ops = 0
    /\ awaiting = <<>>
    /\ now = 0
    /\ ip_address \in BOOLEAN
    /\ aes_key = TRUE
    /\ connected = TRUE
    /\ devices = DiscoverLoop(Responses[6].modules, 1, <<>>).devices
    /\ pending = 0
    /\ sending = None
    /\ sm_states = Put(<<>>, 1, SavedDevice)
    /\ sm_loaded = TRUE
    /\ store = Put(<<>>, 1, SavedDevice)
    /\ ev = [Ev("discover") EXCEPT !.resp = 6, !.ok = TRUE, !.completed = TRUE]
    /\ conf_in = NoConfInput
    /\ conf_out = None
    /\ pure_in = None
    /\ pure_out = None

CmdNext ==
    \/ \E c \in CommandInputs : StartCommand(c[1], c[2], c[3])
    \/ \E d \in IdentifyIds : Identify(d)
    \/ IdentifyNext
    \/ SendStep
    \/ \E r \in RefreshIds : DelayedRefresh(r)

SpecCmd == CmdInit /\ [][CmdNext]_vars

\* The send loop on its own: a few commands, with the event loop resuming a
\* send loop that is asleep between two sends
SendInputs ==
    ({"turn_on", "turn_off"} \X {1, 9} \X {0})
    \cup ({"set_brightness"} \X {1} \X {50})

SendNext ==
    \/ \E c \in SendInputs : StartCommand(c[1], c[2], c[3])
    \/ SendStep
    \/ \E r \in RefreshIds : DelayedRefresh(r)

FairSend == CmdInit /\ [][SendNext]_vars /\ WF_vars(SendStep)

\* A send loop is asleep between two sends
InSendLoop == sending # None /\ sending[1].attempt > 0

\* C11: with a known IP a command returns after at most `tries` (3) sends
\* of one and the same packet, it returns success exactly when all 3 sends
\* were made without a socket error, and a send loop always comes to its end.
C11_SendsTriesTimes ==
    /\ [][(Acted /\ ev'.op = "command" /\ ip_address)
          => /\ Len(ev'.wire) = ev'.sent
             /\ ev'.sent <= 3
             /\ ev'.ok <=> ev'.sent = 3
             /\ \A i \in 1..ev'.sent :
                   ev'.wire[i] = ev'.wire[1] /\ Len(ev'.wire[i]) = 12]_vars
    /\ [](InSendLoop => sending[1].attempt < 3)
    /\ (InSendLoop ~> ~InSendLoop)

C11_Witness ==
    /\ ev.op = "command" /\ ev.name = "set_brightness" /\ ev.ok
    /\ ip_address
    /\ ev.wire = <<ev.wire[1], ev.wire[1], ev.wire[1]>>
    /\ ev.wire[1][10] = 2

\* C12: a command on a registered device, whether its send succeeded or
\* not, calls every registered observer and fires a command event that
\* carries the hub, the device, the command and a success field equal to
\* what the send returned.
C12_EveryCommandIsPublished ==
    (ev.op = "command" /\ ev.dev \in DOMAIN devices)
    => /\ Len(ev.events) >= 1
       /\ \A i \in DOMAIN ev.events :
             /\ ev.events[i].hub = mac
             /\ ev.events[i].device_id = ev.dev
             /\ ev.events[i].success = ev.ok
       /\ Len(ev.notified) >= 1
       /\ \A i \in DOMAIN ev.notified :
             \A o \in DOMAIN state_callbacks :
                \E j \in DOMAIN ev.notified[i] : ev.notified[i][j] = o

\* pct * 255 / 100 rounded to the nearest integer
Round255(pct) == (2 * 255 * pct + 100) \div 200

\* C17: set_brightness(pct) on a dimmable device sends a dim packet whose
\* value is pct * 255 / 100 rounded; on a device that is not dimmable it
\* sends an on packet for pct > 0 and an off packet for pct = 0.
C17_BrightnessValue ==
    (ev.op = "command" /\ ev.name = "set_brightness" /\ ev.sent > 0)
    => IF ev.dev \in DOMAIN devices /\ devices[ev.dev].dimmable
       THEN ev.wire[1][10] = 2 /\ ev.wire[1][11] = Round255(ev.arg)
       ELSE ev.wire[1][10] = (IF ev.arg > 0 THEN 1 ELSE 0)

\* C18: set_cover_position(pos) sends on for pos > 50 and off otherwise, and
\* the position is written to the device only when the command succeeded.
C18_CoverPosition ==
    [][(Acted /\ ev'.op = "command" /\ ev'.name = "set_cover_position")
       => /\ ev'.sent > 0 => ev'.wire[1][10] = (IF ev'.arg > 50 THEN 1 ELSE 0)
          /\ ev'.dev \in DOMAIN devices
                => IF ev'.ok
                   THEN /\ devices'[ev'.dev].position = <<ev'.arg>>
                        /\ devices'[ev'.dev].state = (ev'.arg > 50)
                   ELSE devices'[ev'.dev] = devices[ev'.dev]]_vars

C18_Witness ==
    /\ ev.op = "command" /\ ev.name = "set_cover_position" /\ ev.arg = 50
    /\ ev.ok /\ ip_address
    /\ ev.wire[1][10] = 0
    /\ devices[2].position = <<50>> /\ ~devices[2].state

IdentifyOrder == <<"turn_on", "turn_off", "turn_on", "turn_off", "turn_on", "turn_off">>

----------------------------------------------------------------------------
\* Startup: validate_input of the config flow and async_setup_entry, which
\* call async_connect and async_discover_devices one after the other and
\* use neither result

\* validate_input on a hub of its own: connect_ok is what async_connect
\* returned to it.  Neither call raises, so it reports the new entry.
ValidateInput(auth_ok, local, r) ==
    /\ ev.op = "init"
    /\ Started
    /\ ev' = [Ev("validate") EXCEPT !.ok = auth_ok, !.name = "entry"]
    /\ UNCHANGED <<now, hubvars, smvars, confvars>>

\* async_setup_entry line by line
SetupLoad == ~sm_loaded /\ SMLoad

SetupConnect(auth_ok, local) ==
    /\ sm_loaded
    /\ ev.op \in {"init", "validate"}
    /\ Connect(auth_ok, local)

SetupDiscover(r) == ev.op = "connect" /\ Discover(r)

\* The coordinator is created and refreshed for the first time
SetupFirstRefresh(r) == ev.op = "discover" /\ UpdateStates(r)

\* The platforms are set up
SetupPlatforms ==
    /\ ev.op = "sync"
    /\ Started
    /\ ev' = Ev("platforms")
    /\ UNCHANGED <<now, hubvars, smvars, confvars>>

SetupNext ==
    \/ \E auth_ok \in BOOLEAN, local \in {"found", "none"}, r \in RespIds :
          ValidateInput(auth_ok, local, r)
    \/ SetupLoad
    \/ \E auth_ok \in BOOLEAN, local \in {"found", "none"} :
          SetupConnect(auth_ok, local)
    \/ \E r \in RespIds : SetupDiscover(r)
    \/ \E r \in RespIds : SetupFirstRefresh(r)
    \/ SetupPlatforms

SpecSetup == Init /\ [][SetupNext]_vars

\* C13: when authentication fails, connect returns failure and leaves the
\* hub unconnected, setup goes no further (no discovery, no coordinator
\* refresh, no platforms), and validate_input reports invalid credentials.
C13_AuthFailureBlocksStartup ==
    /\ (ev.op = "connect" /\ ~aes_key) => (~ev.ok /\ ~connected)
    /\ ev.op \in {"discover", "sync", "platforms"} => aes_key
    /\ (ev.op = "validate" /\ ~ev.ok) => ev.name = "invalid_auth"

----------------------------------------------------------------------------
\* The device value in type inference

\* The types whose keywords occur in the lowercased name
KeywordTypes(name_lower) ==
    {"light" : x \in {w \in LightWords : Contains(name_lower, w)}}
    \cup {"dimmer" : x \in {w \in DimmerWords : Contains(name_lower, w)}}
    \cup {"switch" : x \in {w \in SwitchWords \cup FanWords : Contains(name_lower, w)}}
    \cup {"cover" : x \in {w \in CoverWords : Contains(name_lower, w)}}
    \cup {"sensor" : x \in {w \in SensorWords : Contains(name_lower, w)}}

\* The code table as the claim reads it
CodeTable ==
    (1 :> "switch") @@ (2 :> "dimmer") @@ (3 :> "light") @@ (4 :> "cover")
    @@ (5 :> "sensor")

----------------------------------------------------------------------------
\* The discovery loop on its own: a response of one module, any module

\* The modules: two usable ids and the ids -1, 0 and 4 (blacklisted), two
\* versions; no data field, a data blob that does
\* not decrypt, or one with a name (a text, the empty text, none, a number)
\* and a device value; no status field, a status blob that does not
\* decrypt, or one with functions, without a module, or with a name
ModuleInit ==
    LET names == { Text(Lamp), Text(Plug), Text(<<"B","l","i","n","d">>),
                   Text(<<"D","i","m","m","e","r">>),
                   Text(<<"L","i","v","i","n","g"," ","r","o","o","m">>),
                   Text(<<"X">>), Text(<<>>), NoName, Number(7) }
        data == {NoBlob, BadBlob}
                \cup {DataBlob(n, v) : n \in names, v \in {1, 2, 4}}
        status == { NoBlob, BadBlob,
                    StatusBlob(<<>>), StatusBlob(<<1>>), StatusBlob(<<0>>),
                    StatusBlob(<<2, 1>>),
                    Blob(Doc("missing", NoName, 1, List(<<>>))),
                    Blob(Doc("dict", Text(Lamp), 1, List(<<1>>))) }
    IN  /\ ops = 0
        /\ awaiting = <<>>
        /\ now = 0
        /\ ip_address = FALSE
        /\ aes_key = TRUE
        /\ connected = TRUE
        /\ devices = <<>>
        /\ pending = 0
        /\ sending = None
        /\ sm_states = <<>>
        /\ sm_loaded = FALSE
        /\ store = <<>>
        /\ ev = NoEv
        /\ conf_in = NoConfInput
        /\ conf_out = None
        /\ pure_in \in {Some(Module(id, d, st, version)) :
                           id \in {-1, 0, 1, 4, 12}, d \in data,
                           st \in status, version \in {1, 2}}
        /\ pure_out = None

\* The loop of async_discover_devices over the one module, on an empty
\* registry
ModuleApply ==
    /\ pure_out = None
    /\ pure_out' = Some(DiscoverLoop(<<pure_in[1]>>, 1, <<>>))
    /\ UNCHANGED <<now, hubvars, smvars, ev, ops, conf_in, conf_out, pure_in, awaiting>>

SpecModule == ModuleInit /\ [][ModuleApply]_vars

\* The module was registered, and the record it got
Registered == pure_out # None /\ pure_in[1].id \in DOMAIN pure_out[1].devices
Record == pure_out[1].devices[pure_in[1].id]

\* The keywords that make a name dimmer-related, read generously: those of
\* the dimmer rule and those the code takes as dimmable rooms
DimmerKeywords ==
    { <<"d","i","m","m","e","r">>, <<"d","i","m">>,
      <<"b","r","i","g","h","t","n","e","s","s">> } \cup AlwaysDimWords

\* C22: a registered device is dimmable exactly when its type is dimmer or
\* cover or its name has a dimmer-related keyword.
C22_DimmableByType ==
    Registered
    => (Record.dimmable
        <=> \/ Record.device_type \in {"dimmer", "cover"}
            \/ AnyWord(lower(Record.device_model), DimmerKeywords))

\* The decoded status of the module carries a functions list with an entry
CarriesFunctions(m) ==
    /\ m.status.kind = "json"
    /\ m.status.doc.module = "dict"
    /\ m.status.doc.functions.kind = "list"
    /\ m.status.doc.functions.items # <<>>

\* The status is missing, undecodable or without functions
WithoutFunctions(m) ==
    \/ m.status.kind # "json"
    \/ m.status.doc.module = "missing"

\* C23: a registered device starts with state functions[0] = 1 when the
\* status carries functions; with no functions it starts with the parity of
\* version_status (odd is on) and confidence 60.
C23_InitialState ==
    Registered
    => /\ CarriesFunctions(pure_in[1])
          => Record.state = (pure_in[1].status.doc.functions.items[1] = 1)
       /\ WithoutFunctions(pure_in[1])
          => /\ Record.state = (pure_in[1].version_status % 2 = 1)
             /\ Record.confidence = Some(CONFIDENCE_LOW)

\* A blob yields a name: it decodes to a module with a non-empty text name
YieldsName(blob) ==
    /\ blob.kind = "json"
    /\ blob.doc.module = "dict"
    /\ blob.doc.name.kind = "str"
    /\ blob.doc.name.chars # <<>>

\* C24: a registered device has a non-empty name, and it is "Device {id}"
\* when neither the data blob nor the status blob yields a name.
C24_NameNeverEmpty ==
    Registered
    => /\ Record.device_model # <<>>
       /\ (~YieldsName(pure_in[1].data) /\ ~YieldsName(pure_in[1].status))
          => Record.device_model = DefaultName(pure_in[1].id)

\* Module 12 with neither blob decodable is named "Device 12"
C24_Witness ==
    /\ Registered
    /\ pure_in = Some(Module(12, BadBlob, BadBlob, 1))
    /\ Record.device_model = <<"D","e","v","i","c","e"," ","1","2">>

\* C39: discovery registers no module whose id is 0, negative or in the
\* blacklist, and every entry it writes is stored under its own device_id.
C39_OnlyUsableIdsRegistered ==
    pure_out # None
    => /\ (pure_in[1].id <= 0 \/ pure_in[1].id \in entity_blacklist)
             => pure_out[1].devices = <<>>
       /\ \A d \in DOMAIN pure_out[1].devices :
             /\ d > 0
             /\ d \notin entity_blacklist
             /\ pure_out[1].devices[d].device_id = d

\* The loop ran through a response whose one module is blacklisted
C39_Witness ==
    /\ pure_out # None
    /\ pure_in[1].id = 4
    /\ pure_out[1].completed
    /\ pure_out[1].devices = <<>>

----------------------------------------------------------------------------
\* _decrypt_kaku_data after the AES step: from the decrypted bytes to the
\* JSON document.  A byte is written as the text it stands for: "{", "}",
\* "[", "]" and "," themselves, "k" a key with its colon, "0" a scalar, "g"
\* any other printable byte, "u" a byte that is not valid UTF-8, and "p1",
\* "p2", "p3" the bytes 1, 2, 3.

\* json.loads: the index one past the value (kind "value"), the rest of an
\* object ("members") or the rest of an array ("elements") that starts at
\* i, or 0 when none starts there
RECURSIVE JsonEnd(_, _, _)
JsonEnd(text, kind, i) ==
    IF i > Len(text) THEN 0
    ELSE IF kind = "value"
    THEN IF text[i] = "0" THEN i + 1
         ELSE IF text[i] = "{"
         THEN IF i + 1 <= Len(text) /\ text[i + 1] = "}" THEN i + 2
              ELSE JsonEnd(text, "members", i + 1)
         ELSE IF text[i] = "["
         THEN IF i + 1 <= Len(text) /\ text[i + 1] = "]" THEN i + 2
              ELSE JsonEnd(text, "elements", i + 1)
         ELSE 0
    ELSE IF kind = "members" /\ text[i] # "k" THEN 0
    ELSE LET j == JsonEnd(text, "value", IF kind = "members" THEN i + 1 ELSE i)
             close == IF kind = "members" THEN "}" ELSE "]"
         IN  IF j = 0 \/ j > Len(text) THEN 0
             ELSE IF text[j] = "," THEN JsonEnd(text, kind, j + 1)
             ELSE IF text[j] = close THEN j + 1
             ELSE 0

\* Lines 110-146 of _decrypt_kaku_data: the JSON start, the padding, the
\* decoding, the JSON end, json.loads; None when it returns None or raises
extract_json(decrypted) ==
    LET \* the first "{" or "[", or 0 when there is none
        json_start ==
            IF \E i \in DOMAIN decrypted : decrypted[i] \in {"{", "["}
            THEN CHOOSE i \in DOMAIN decrypted :
                    /\ decrypted[i] \in {"{", "["}
                    /\ \A j \in 1..(i - 1) : decrypted[j] \notin {"{", "["}
            ELSE 0
        json_bytes == SubSeq(decrypted, json_start, Len(decrypted))
        n == Len(json_bytes)
        \* the last byte as a number; 16 stands for every byte not below 16
        pad_len == CASE json_bytes[n] = "p1" -> 1
                     [] json_bytes[n] = "p2" -> 2
                     [] json_bytes[n] = "p3" -> 3
                     [] OTHER -> 16
        from == IF pad_len >= n THEN 1 ELSE n - pad_len + 1
        \* "Remove padding"
        unpadded ==
            IF n > 0 /\ pad_len < 16
               /\ \A i \in from..n : json_bytes[i] = json_bytes[n]
            THEN SubSeq(json_bytes, 1, n - pad_len)
            ELSE json_bytes
        \* decode('utf-8', errors='ignore')
        json_text == SelectSeq(unpadded, LAMBDA b : b # "u")
        \* the depth after the first i characters
        depth[i \in 0..Len(json_text)] ==
            IF i = 0 THEN 0
            ELSE depth[i - 1]
                 + (IF json_text[i] = "{" THEN 1
                    ELSE IF json_text[i] = "}" THEN -1 ELSE 0)
        closes == {i \in DOMAIN json_text : json_text[i] = "}" /\ depth[i] = 0}
        \* one past the first "}" that brings the depth to zero, or 0
        json_end == IF closes = {} THEN 0
                    ELSE CHOOSE i \in closes : \A j \in closes : i <= j
        cut == IF json_end > 0 THEN SubSeq(json_text, 1, json_end) ELSE json_text
    IN  IF json_start = 0 THEN None
        ELSE IF JsonEnd(cut, "value", 1) = Len(cut) + 1 THEN Some(cut)
        ELSE None

\* The plaintexts: leading bytes with no bracket, a document (an object or
\* an array), trailing bytes
DecodeInit ==
    LET leading == { <<>>, <<"g">>, <<"u", "g">> }
        documents ==
            { <<"{", "}">>,
              <<"{", "k", "0", "}">>,
              <<"{", "k", "{", "k", "0", "}", "}">>,
              <<"{", "k", "0", ",", "k", "{", "}", "}">>,
              <<"{", "k", "[", "0", ",", "0", "]", "}">>,
              <<"{", "k", "[", "{", "k", "0", "}", "]", "}">>,
              <<"[", "]">>,
              <<"[", "0", "]">>,
              <<"[", "0", ",", "0", "]">>,
              <<"[", "{", "k", "0", "}", "]">>,
              <<"[", "{", "}", ",", "{", "}", "]">>,
              <<"[", "[", "0", "]", "]">> }
        trailing ==
            { <<>>, <<"p1">>, <<"p2", "p2">>, <<"p3", "p3", "p3">>, <<"g">>,
              <<"u">>, <<"}">>, <<"]", "g">>, <<"g", "p1">>, <<"p2", "p1">> }
    IN  /\ ops = 0
        /\ awaiting = <<>>
        /\ now = 0
        /\ ip_address = FALSE
        /\ aes_key = TRUE
        /\ connected = FALSE
        /\ devices = <<>>
        /\ pending = 0
        /\ sending = None
        /\ sm_states = <<>>
        /\ sm_loaded = FALSE
        /\ store = <<>>
        /\ ev = NoEv
        /\ conf_in = NoConfInput
        /\ conf_out = None
        /\ pure_in \in {Some(x) : x \in [lead : leading, doc : documents,
                                         trail : trailing]}
        /\ pure_out = None

DecodeApply ==
    /\ pure_out = None
    /\ pure_out' = Some(extract_json(pure_in[1].lead \o pure_in[1].doc
                                     \o pure_in[1].trail))
    /\ UNCHANGED <<now, hubvars, smvars, ev, ops, conf_in, conf_out, pure_in, awaiting>>

SpecDecode == DecodeInit /\ [][DecodeApply]_vars

\* C25: for leading bytes with no bracket, then a well-formed JSON object
\* or array, then padding or garbage, decode returns that document.
C25_DecodeReturnsDocument ==
    pure_out # None => pure_out[1] = Some(pure_in[1].doc)

----------------------------------------------------------------------------
\* The state manager on its own: a StateManager as constructed, over a store
\* left by an earlier run (empty, one device, nine devices), is given load,
\* get, update, reset and unload

\* A state as the hub passes it to async_update_device_state
TrackerRecord(device_id, on) ==
    [SavedDevice EXCEPT !.device_id = device_id, !.state = on]

\* The entry is unloaded: its state manager is reachable no more
Unloaded == ev.op = "unload" /\ ev.ok

TrackerInit ==
    /\ ops = 0
    /\ awaiting = <<>>
    /\ now = 0
    /\ ip_address = FALSE
    /\ aes_key = FALSE
    /\ connected = FALSE
    /\ devices = <<>>
    /\ pending = 0
    /\ sending = None
    /\ sm_states = <<>>
    /\ sm_loaded = FALSE
    /\ store \in { <<>>,
                    Put(<<>>, 1, SavedDevice),
                    [d \in 1..9 |-> TrackerRecord(d, TRUE)] }
    /\ ev = NoEv
    /\ conf_in = NoConfInput
    /\ conf_out = None
    /\ pure_in = None
    /\ pure_out = None

\* The record of a state manager operation
TrackerEv(op, device_id, reads, writes) ==
    [Ev(op) EXCEPT !.dev = device_id, !.reads = reads, !.writes = writes,
                   !.updates = ev.updates]

\* async_load
TrackerLoad ==
    /\ ~Unloaded
    /\ sm_states' = Loaded(sm_states, sm_loaded, store)
    /\ sm_loaded' = TRUE
    /\ ev' = TrackerEv("sm_load", 0, IF sm_loaded THEN 0 ELSE 1, 0)
    /\ UNCHANGED <<now, hubvars, store, confvars, ops>>

\* async_get_device_state
TrackerGet(device_id) ==
    LET states == Loaded(sm_states, sm_loaded, store) IN
    /\ ~Unloaded
    /\ sm_loaded' = TRUE
    /\ sm_states' = IF get_device_state(device_id, now) # None
                    THEN Put(states, device_id, get_device_state(device_id, now)[1])
                    ELSE states
    /\ ev' = TrackerEv("sm_get", device_id, IF sm_loaded THEN 0 ELSE 1, 0)
    /\ UNCHANGED <<now, hubvars, store, confvars, ops>>

\* async_get_all_states
TrackerGetAll ==
    /\ ~Unloaded
    /\ sm_loaded' = TRUE
    /\ sm_states' = get_all_states(now)
    /\ ev' = TrackerEv("sm_get_all", 0, IF sm_loaded THEN 0 ELSE 1, 0)
    /\ UNCHANGED <<now, hubvars, store, confvars, ops>>

\* async_update_device_state
TrackerUpdate(device_id, state) ==
    LET states == StoredStates(sm_states, sm_loaded, store, device_id, state)
        saves == Cardinality(DOMAIN states) % SAVE_EVERY = 0
    IN  /\ ~Unloaded
        /\ ev.updates < MaxUpdates
        /\ sm_loaded' = TRUE
        /\ sm_states' = states
        /\ store' = SavedStore(states, store)
        /\ ev' = [TrackerEv("sm_update", device_id, IF sm_loaded THEN 0 ELSE 1,
                            IF saves THEN 1 ELSE 0)
                     EXCEPT !.updates = ev.updates + 1]
        /\ UNCHANGED <<now, hubvars, confvars, ops>>

\* async_reset_device_state
TrackerResetDevice(device_id) ==
    /\ IF device_id \in DOMAIN sm_states
       THEN /\ sm_states' = [d \in (DOMAIN sm_states) \ {device_id} |-> sm_states[d]]
            /\ store' = sm_states'
            /\ ev' = TrackerEv("sm_reset", device_id, 0, 1)
       ELSE /\ UNCHANGED <<sm_states, store>>
            /\ ev' = TrackerEv("sm_reset", device_id, 0, 0)
    /\ UNCHANGED <<now, hubvars, sm_loaded, confvars, ops>>

\* async_reset_all_states
TrackerResetAll ==
    /\ sm_states' = <<>>
    /\ store' = <<>>
    /\ ev' = TrackerEv("sm_reset_all", 0, 0, 1)
    /\ UNCHANGED <<now, hubvars, sm_loaded, confvars, ops>>

\* handle_reset_state: the reset service, with or without a device id
ResetService(device_id) ==
    /\ ~Unloaded
    /\ IF device_id # None /\ device_id[1] # 0
       THEN TrackerResetDevice(device_id[1])
       ELSE TrackerResetAll

\* async_unload_entry that does not save
TrackerUnloadNoSave(unload_ok) ==
    /\ ~Unloaded
    /\ ev' = [TrackerEv("unload", 0, 0, 0) EXCEPT !.ok = unload_ok]
    /\ UNCHANGED <<now, hubvars, smvars, confvars, ops>>

\* async_unload_entry: when the platforms unloaded, the states are saved
TrackerUnload(unload_ok) ==
    /\ ~Unloaded
    /\ store' = IF unload_ok THEN sm_states ELSE store
    /\ ev' = [TrackerEv("unload", 0, 0, IF unload_ok THEN 1 ELSE 0)
                 EXCEPT !.ok = unload_ok]
    /\ UNCHANGED <<now, hubvars, sm_states, sm_loaded, confvars, ops>>

TrackerNext ==
    \/ TrackerLoad
    \/ \E d \in {1, 10} : TrackerGet(d)
    \/ TrackerGetAll
    \/ \E d \in {1, 10}, on \in BOOLEAN : TrackerUpdate(d, TrackerRecord(d, on))
    \/ \E d \in {None, Some(0)} \cup {Some(i) : i \in {1, 10}} : ResetService(d)
    \/ \E unload_ok \in BOOLEAN : TrackerUnload(unload_ok)

SpecTracker == TrackerInit /\ [][TrackerNext]_vars

\* C26: an update call writes the store exactly when it is the tenth, the
\* twentieth, ... update call, whatever the size of the map.
C26_WriteEveryTenthUpdate ==
    ev.op = "sm_update" => (ev.writes = 1 <=> ev.updates % 10 = 0)

C28_ResetFlushes ==
    /\ ev.op = "sm_reset"
       => /\ ev.dev \notin DOMAIN sm_states
          /\ ev.dev \notin DOMAIN store
          /\ store = sm_states
    /\ ev.op = "sm_reset_all" => (sm_states = <<>> /\ store = <<>>)

\* The map with every confidence taken from another map of the same devices
WithConfidenceOf(states, other) ==
    [d \in DOMAIN states |->
        [states[d] EXCEPT !.confidence =
            IF d \in DOMAIN other THEN other[d].confidence ELSE @]]

\* C29: a get, get-all or update on a tracker that has not loaded reads the
\* store once and acts on what it read; on a loaded tracker a load call
\* leaves the map as it is, and a load, get, get-all or update does not
\* read the store and acts on the map in memory.
C29_LazyIdempotentLoad ==
    [][ev'.op \in {"sm_load", "sm_get", "sm_get_all", "sm_update"} /\ ev' # ev
       => /\ sm_loaded'
          /\ ~sm_loaded
             => /\ ev'.reads = 1
                /\ DOMAIN sm_states'
                     = DOMAIN store
                       \cup (IF ev'.op = "sm_update" THEN {ev'.dev} ELSE {})
          /\ sm_loaded
             => /\ ev'.reads = 0
                /\ ev'.op = "sm_load" => sm_states' = sm_states
                /\ ev'.op \in {"sm_get", "sm_get_all"}
                     => WithConfidenceOf(sm_states', sm_states) = sm_states
                /\ ev'.op = "sm_update"
                     => /\ DOMAIN sm_states' = DOMAIN sm_states \cup {ev'.dev}
                        /\ \A d \in DOMAIN sm_states \ {ev'.dev} :
                              sm_states'[d] = sm_states[d]]_vars

\* A second load call on a tracker whose map is ahead of the store
C29_Witness ==
    /\ ev.op = "sm_load"
    /\ ev.reads = 0
    /\ sm_loaded
    /\ sm_states # store

----------------------------------------------------------------------------
\* The registry and the state manager

\* C30: when a command, a poll or a delayed refresh returns and has changed
\* the registry record of a device, the state manager holds that record.
C30_MutationsThroughTracker ==
    [][(ev'.op \in {"command", "sync", "refresh"} /\ sending' = None
        /\ devices' # devices)
       => \A d \in DOMAIN devices \cap DOMAIN devices' :
             devices'[d] # devices[d]
             => /\ sm_loaded'
                /\ d \in DOMAIN sm_states'
                /\ sm_states'[d] = devices'[d]]_vars

----------------------------------------------------------------------------
\* Overlapping delayed refreshes

\* C31: a delayed refresh is never cancelled (the number of tasks asleep
\* drops only by the one that runs), a second re-sync against the same
\* response at any later time changes nothing, so that any number of them
\* after the last command leave what a single one leaves, and a re-sync that
\* finds the cloud state of a device equal to the stored one changes nothing
\* of its record but the version numbers it copies.
C31_RefreshIdempotent ==
    [][/\ pending' < pending => (ev'.op = "refresh" /\ pending' = pending - 1)
       /\ \A r \in RefreshIds :
            (pending > 0 /\ ev'.op = "refresh" /\ DelayedRefresh(r))
            => /\ \A t \in TimePoints :
                     t >= now => Synced(r, devices', t).devices = devices'
               /\ \A i \in DOMAIN Responses[r].modules :
                     LET m == Responses[r].modules[i] IN
                     (m.id \in DOMAIN devices /\ HasFunctions(m)
                        /\ CloudState(m) = devices[m.id].state)
                     => devices'[m.id] =
                           [devices[m.id] EXCEPT
                               !.version_status = m.version_status,
                               !.version_data = m.version_data]]_vars

\* A refresh ran while another was still asleep, and took back the state a
\* command had set
C31_Witness ==
    /\ ev.op = "refresh" /\ ev.ok
    /\ pending >= 1
    /\ \E d \in DOMAIN devices :
          devices[d].last_command = "{'state': True}" /\ ~devices[d].state

----------------------------------------------------------------------------
\* The hub with its cloud calls in flight: async_discover_devices and
\* async_update_states wait for the cloud between their request and the
\* loop over the response, and other coroutines run in between.  An entry
\* of awaiting is one such coroutine: its task, the response the cloud
\* computed for its request, and whether the daily task called it.

\* Disconnect that also empties the registry
DisconnectClears ==
    /\ Started
    /\ connected' = FALSE
    /\ devices' = <<>>
    /\ ev' = Ev("disconnect")
    /\ UNCHANGED <<now, ip_address, aes_key, pending, sending,
                   smvars, confvars>>

\* async_disconnect
Disconnect ==
    /\ Started
    /\ connected' = FALSE
    /\ ev' = Ev("disconnect")
    /\ UNCHANGED <<now, ip_address, aes_key, devices, pending, sending,
                   smvars, confvars>>

\* async_discover_devices (task "discover") or the poll's
\* async_update_states (task "sync") up to its cloud call: without a session
\* key it returns at once, with one the request goes out
CloudRequest(task, r) ==
    /\ Started
    /\ Len(awaiting) < MaxAwaiting
    /\ awaiting' = IF aes_key
                   THEN Append(awaiting,
                               [task |-> task, resp |-> r, daily |-> FALSE])
                   ELSE awaiting
    /\ ev' = IF aes_key THEN Ev("request") ELSE Ev(task)
    /\ UNCHANGED <<now, hubvars, smvars, conf_in, conf_out, pure_in, pure_out>>

\* The response of the i-th waiting coroutine arrives and it runs to its
\* end: the loop over the modules has no await in it.  The daily task goes
\* on to coordinator.async_request_refresh, whose async_update_states gets
\* the response r.
CloudResponse(i, r) ==
    LET a == awaiting[i]
        resp == Responses[a.resp]
        run == IF a.task = "sync" THEN Synced(a.resp, devices, now)
               ELSE IF IsList(resp) THEN DiscoverLoop(resp.modules, 1, devices)
               ELSE [devices |-> devices, completed |-> FALSE]
        rest == [j \in 1..(Len(awaiting) - 1) |->
                    IF j < i THEN awaiting[j] ELSE awaiting[j + 1]]
    IN  /\ devices' = run.devices
        /\ awaiting' = IF a.daily
                       THEN Append(rest, [task |-> "sync", resp |-> r,
                                          daily |-> FALSE])
                       ELSE rest
        /\ ev' = [Ev(a.task) EXCEPT !.ok = IsList(resp), !.resp = a.resp,
                                    !.completed = run.completed]
        /\ UNCHANGED <<now, ip_address, aes_key, connected, pending, sending,
                       smvars, ops, conf_in, conf_out, pure_in, pure_out>>

\* scheduled_update, the task run once a day, up to its first cloud call:
\* async_connect, which logs in only when the hub is not connected, then
\* async_discover_devices
ScheduledUpdate(auth_ok, local, r) ==
    /\ Started
    /\ Len(awaiting) < MaxAwaiting
    /\ IF connected \/ ~auth_ok
       THEN UNCHANGED <<ip_address, aes_key, connected>>
       ELSE /\ aes_key' = TRUE
            /\ ip_address' = (ip_address \/ local = "found")
            /\ connected' = TRUE
    /\ awaiting' = IF aes_key'
                   THEN Append(awaiting,
                               [task |-> "discover", resp |-> r, daily |-> TRUE])
                   ELSE awaiting
    /\ ev' = [Ev("daily") EXCEPT !.ok = connected',
                                 !.logins = IF connected THEN 0 ELSE 1]
    /\ UNCHANGED <<now, devices, pending, sending, smvars,
                   conf_in, conf_out, pure_in, pure_out>>

\* The poll (task "sync"), a discovery, the daily task and the commands,
\* with the cloud's responses arriving in any order
AsyncNext ==
    \/ \E auth_ok \in BOOLEAN, local \in {"found", "none"} :
          Connect(auth_ok, local)
    \/ Disconnect
    \/ \E task \in {"discover", "sync"}, r \in {5, 6} : CloudRequest(task, r)
    \/ \E i \in DOMAIN awaiting : CloudResponse(i, 6)
    \/ \E auth_ok \in BOOLEAN : ScheduledUpdate(auth_ok, "found", 6)
    \/ \E c \in Commands : StartCommand(c[1], c[2], c[3])
    \/ SendStep
    \/ \E r \in {5, 6} : DelayedRefresh(r)

SpecAsync == Init /\ [][AsyncNext]_vars

----------------------------------------------------------------------------
\* Properties of the hub with its cloud calls in flight

\* The ids a response names
ResponseIds(r) ==
    {Responses[r].modules[i].id : i \in DOMAIN Responses[r].modules}

\* The registry entries whose ids the response does not name are kept as
\* they are
OthersKept(r) ==
    \A d \in DOMAIN devices :
        d \notin ResponseIds(r)
        => d \in DOMAIN devices' /\ devices'[d] = devices[d]

\* C32: a discovery or a sync, when its response arrives, changes only the
\* registry entries whose ids the response names; every other entry stays
\* as it is and stays registered, also with another run still waiting for
\* its own response.
C32_OnlyNamedEntriesChange ==
    [][/\ \A i \in DOMAIN awaiting :
            (Len(awaiting') # Len(awaiting) /\ CloudResponse(i, 6))
            => OthersKept(awaiting[i].resp)
       /\ \A r \in {5, 6} :
            (pending' < pending /\ DelayedRefresh(r)) => OthersKept(r)]_vars

\* A run given the two devices of Responses[6] finished while another run
\* was waiting, and device 3, registered by an earlier run, is still there
C32_Witness ==
    /\ ev.op \in {"discover", "sync"} /\ ev.ok /\ ev.resp = 6
    /\ awaiting # <<>>
    /\ 3 \in DOMAIN devices
    /\ devices[1].version_status = 2

\* C33: a run of the daily task on a hub that is already connected logs in
\* to the cloud again before it discovers the devices.
C33_DailyReauthenticates ==
    [][(connected /\ ops' # ops /\ ev'.op = "daily") => ev'.logins = 1]_vars

\* C35: when the response of a sync arrives whose request went out before
\* the last command was called, and that command set the state of a
\* registered device, the sync leaves that state as the command set it.
C35_StaleSyncKeepsCommand ==
    [][\A i \in DOMAIN awaiting :
         (ev.op = "command" /\ ev.ok /\ ev.sent = 0
            /\ ev.dev \in DOMAIN devices
            /\ awaiting[i].task = "sync"
            /\ CloudResponse(i, 6))
         => devices'[ev.dev].state = devices[ev.dev].state]_vars

----------------------------------------------------------------------------
\* Every operation of the hub, each run to its end in one step, identify
\* and disconnect among them

OpsNext ==
    \/ \E auth_ok \in BOOLEAN : Connect(auth_ok, "none")
    \/ Disconnect
    \/ \E r \in {5, 8} : Discover(r)
    \/ UpdateStates(6)
    \/ \E c \in Commands : StartCommand(c[1], c[2], c[3])
    \/ SendStep
    \/ \E d \in CmdIds : Identify(d)
    \/ IdentifyNext
    \/ DelayedRefresh(6)

SpecOps == Init /\ [][OpsNext]_vars

\* C34: no step of connect, discovery, sync, a command, identify, a
\* delayed refresh or disconnect removes an id from the registry.
C34_RegistryOnlyGrows ==
    [][DOMAIN devices \subseteq DOMAIN devices']_vars

\* An identify ended on a hub with three devices that was disconnected
\* meanwhile
C34_Witness ==
    /\ ev.op = "identify" /\ ev.ok
    /\ ~connected /\ aes_key
    /\ Cardinality(DOMAIN devices) = 3

\* C37: after a discovery that ran through its response, the record of
\* every module with a usable id is built from the response alone: state is
\* functions[0] = 1 of the decoded status and off without one, brightness is
\* 50 when dimmable and absent otherwise, position is absent, and there is
\* no last_command, last_update or confidence.
C37_DiscoveryRebuildsRecord ==
    (ev.op = "discover" /\ ev.ok /\ ev.completed)
    => \A i \in DOMAIN Responses[ev.resp].modules :
          LET m == Responses[ev.resp].modules[i] IN
          (m.idok /\ m.id > 0 /\ m.id \notin entity_blacklist)
          => /\ m.id \in DOMAIN devices
             /\ devices[m.id].state =
                   (CarriesFunctions(m) /\ m.status.doc.functions.items[1] = 1)
             /\ devices[m.id].brightness =
                   (IF devices[m.id].dimmable THEN <<50>> ELSE <<>>)
             /\ devices[m.id].position = <<>>
             /\ devices[m.id].last_command = ""
             /\ devices[m.id].last_update.kind = "absent"
             /\ devices[m.id].confidence = <<>>

\* Device 1 was switched off by a command, which the state manager still
\* shows, and a discovery then found it on
C37_Witness ==
    /\ ev.op = "discover" /\ ev.ok /\ ev.completed
    /\ 1 \in DOMAIN sm_states
    /\ sm_states[1].last_command = "{'state': False}"
    /\ 1 \in DOMAIN devices
    /\ devices[1].state
    /\ devices[1].last_command = ""

\* C38: a command for a device id that is not in the registry leaves the
\* registry and the state manager as they are, calls no observer and fires
\* no event; when the transport succeeds it returns success, all its
\* packets were sent when there is an IP address, and one delayed refresh is
\* created.
C38_UnregisteredCommand ==
    [][(ev'.op = "command" /\ (ops' # ops \/ sending' # sending)
        /\ ev'.dev \notin DOMAIN devices)
       => /\ devices' = devices
          /\ UNCHANGED smvars
          /\ ev'.notified = <<>>
          /\ ev'.events = <<>>
          /\ ev'.ok => pending' = pending + 1
          /\ (ev'.ok /\ ip_address)
                => ev'.sent = tries /\ Len(ev'.wire) = tries]_vars

\* A set_cover_position for an unregistered device returned success after
\* its packets went out, with a refresh created
C38_Witness ==
    /\ ev.op = "command" /\ ev.name = "set_cover_position" /\ ev.ok
    /\ ev.sent = tries
    /\ ev.dev \notin DOMAIN devices
    /\ pending = 1
    /\ ~sm_loaded

----------------------------------------------------------------------------
\* The state manager with its store loads in flight: a first access that
\* finds _loaded false calls async_load, which waits for the store, and
\* another first access can come in before the store answers.  An entry of
\* awaiting is one such call: its operation, device and state, and the data
\* the store gives it.

\* async_get_device_state (op "sm_get") or async_update_device_state (op
\* "sm_update") up to "data = await self._store.async_load()"
TrackerLoadRequest(op, device_id, state) ==
    /\ ~sm_loaded
    /\ Len(awaiting) < MaxAwaiting
    /\ awaiting' = Append(awaiting, [task |-> "load", op |-> op,
                                     dev |-> device_id, state |-> state,
                                     data |-> store])
    /\ ev' = TrackerEv("sm_load", device_id, 1, 0)
    /\ UNCHANGED <<now, hubvars, smvars, ops,
                   conf_in, conf_out, pure_in, pure_out>>

\* The store answers the i-th waiting call: async_load builds the map anew
\* from the data and sets _loaded, and the call goes on to its end
TrackerLoadResponse(i) ==
    LET a == awaiting[i]
        states == IF a.op = "sm_update" THEN Put(a.data, a.dev, a.state)
                  ELSE IF a.dev \in DOMAIN a.data
                  THEN Put(a.data, a.dev, update_confidence(a.data[a.dev], now))
                  ELSE a.data
        saves == a.op = "sm_update" /\ Cardinality(DOMAIN states) % SAVE_EVERY = 0
    IN  /\ sm_states' = states
        /\ sm_loaded' = TRUE
        /\ store' = IF saves THEN states ELSE store
        /\ awaiting' = [j \in 1..(Len(awaiting) - 1) |->
                           IF j < i THEN awaiting[j] ELSE awaiting[j + 1]]
        /\ ev' = TrackerEv(a.op, a.dev, 0, IF saves THEN 1 ELSE 0)
        /\ UNCHANGED <<now, hubvars, ops, conf_in, conf_out, pure_in, pure_out>>

LoadRaceNext ==
    \/ \E d \in {1, 10} : TrackerLoadRequest("sm_get", d, TrackerRecord(d, TRUE))
    \/ \E d \in {1, 10}, on \in BOOLEAN :
          TrackerLoadRequest("sm_update", d, TrackerRecord(d, on))
    \/ \E i \in DOMAIN awaiting : TrackerLoadResponse(i)

SpecLoadRace == TrackerInit /\ [][LoadRaceNext]_vars

\* C36: when the load of a second first access completes after the first
\* one stored its update, the record of that update is still in the map, as
\* it was stored, unless the second call is for the same device.
C36_ConcurrentLoadKeepsUpdate ==
    [][\A i \in DOMAIN awaiting :
         (sm_loaded /\ ev.op = "sm_update" /\ awaiting[i].dev # ev.dev
            /\ TrackerLoadResponse(i))
         => /\ ev.dev \in DOMAIN sm_states'
            /\ sm_states'[ev.dev] = sm_states[ev.dev]]_vars

====
